---------------------------- MODULE Spec2Model ----------------------------
(***************************************************************************)
(* A model of scripts/mesh-analyzer.py (counterslayer): mesh validation,   *)
(* bounding-box intersection checking, spatial fit analysis and the batch  *)
(* driver main().                                                          *)
(*                                                                         *)
(* Lengths are fixed-point integers in thousandths of a millimetre, so     *)
(* 0.5 mm is 500 and 0.1 mm is 100; round(v, 2) rounds to a multiple of    *)
(* 10.  A face area is a pair of such integers, thousandths of a mm^2 and  *)
(* units of 1e-12 mm^2, so the 1e-10 threshold of analyze_mesh is (0, 100).*)
(*                                                                         *)
(* A Python dict is a function whose DOMAIN is the set of keys present;    *)
(* an insertion-ordered dict whose order the code depends on (meshes) is a *)
(* sequence of [name, mesh] items.                                         *)
(***************************************************************************)
EXTENDS Integers, Sequences, FiniteSets, TLC

VARIABLES
    pc,          \* control point of the function(s) being run
    meshes,      \* name -> mesh, in insertion order
    placements,  \* name -> placement dict
    i, j,        \* check_intersections: positions of the pair in mesh_list
    name1, name2,\* check_intersections: the names of the pair last examined
    overlap,     \* check_intersections: the local of the same name
    issues,      \* check_intersections: the list being built
    analysis_dir,\* the files of the analysis directory: file name -> content
    spatial,     \* the value compute_spatial_analysis returns
    stl,         \* analyze_mesh: what trimesh.load finds at stl_path
    analysed,    \* analyze_mesh: its outcome, a (report, mesh) pair or an exception
    stl_files,   \* main: the file names of the manifest
    file_idx,    \* main: the position in stl_files of the next file
    report,      \* main: the report being built
    calls,       \* history: the <<function, mesh name>> pairs of the calls main made
    arg_mesh,    \* the mesh argument of the geometry analysis being run
    arg_dims,    \* the box_dims or lid_dims argument of the analysis being run
    clusters,    \* detect_ramps: the labels fclusterdata gives the diagonal faces
    result       \* the value the geometry analysis returns

ciVars == <<i, j, name1, name2, overlap, issues>>
saVars == <<spatial>>
amVars == <<stl, analysed>>
mainVars == <<stl_files, file_idx, report, calls>>
geoVars == <<arg_mesh, arg_dims, clusters, result>>
vars == <<pc, meshes, placements, i, j, name1, name2, overlap, issues,
          analysis_dir, spatial, stl, analysed, stl_files, file_idx, report, calls,
          arg_mesh, arg_dims, clusters, result>>

-----------------------------------------------------------------------------
(* Units and generic helpers *)

\* {}
EmptyDict == [k \in {} |-> 0]

\* None where a string is expected (an id), and where a list is expected
\* (None and the empty list are both false in "if box_exterior:")
None == "<None>"
NoneList == <<>>

\* dict.get(key, default)
DictGet(d, key, default) == IF key \in DOMAIN d THEN d[key] ELSE default

\* the position of the first item of an ordered dict with this name, 0 if none
RECURSIVE IndexOf(_, _, _)
IndexOf(items, name, k) ==
    IF k > Len(items) THEN 0
    ELSE IF items[k].name = name THEN k
    ELSE IndexOf(items, name, k + 1)

HasKey(items, name) == IndexOf(items, name, 1) # 0
Lookup(items, name) == items[IndexOf(items, name, 1)].mesh

\* [bounds[1][i] - bounds[0][i] for i in range(3)]
Dims(bounds) ==
    <<bounds[2][1] - bounds[1][1], bounds[2][2] - bounds[1][2], bounds[2][3] - bounds[1][3]>>

-----------------------------------------------------------------------------
(* Mesh names *)

MeshNames == {"box", "lid", "tray_A_a", "tray_B_b", "Tray_C_c"}

\* str.lower() on the names of the model
Lower(name) ==
    CASE name = "tray_A_a" -> "tray_a_a"
      [] name = "tray_B_b" -> "tray_b_b"
      [] name = "Tray_C_c" -> "tray_c_c"
      [] OTHER -> name

\* 'tray' in s, for the lower-cased names of the model
ContainsTray(s) == s \in {"tray_a_a", "tray_b_b", "tray_c_c"}

-----------------------------------------------------------------------------
(* analyze_mesh *)

\* a loaded mesh: what the analyses read of a trimesh.Trimesh; a mesh without
\* faces has no bounds (None).  Mesh gives every face the normal +Z and the
\* low corner of the bounds as centroid; WithFaces sets other faces
Mesh(bounds, vertices, watertight, winding, areas) ==
    [bounds |-> bounds, vertices |-> vertices, is_watertight |-> watertight,
     is_winding_consistent |-> winding, area_faces |-> areas,
     face_normals |-> [n \in DOMAIN areas |-> <<0, 0, 1000>>],
     triangles_center |-> [n \in DOMAIN areas |-> IF bounds = <<>> THEN <<0, 0, 0>>
                                                   ELSE bounds[1]]]

\* the same mesh with these face normals (thousandths of a unit vector) and
\* these face centroids, one per face
WithFaces(mesh, normals, centers) ==
    [mesh EXCEPT !.face_normals = normals, !.triangles_center = centers]

\* None where a mesh is expected
NoMesh == [none |-> TRUE]

\* a face area: milli thousandths of a mm^2 plus pico units of 1e-12 mm^2
\* (0 <= pico < 10^9), an exact two-limb fixed-point number
Area(milli, pico) == [milli |-> milli, pico |-> pico]
AreaLess(a, b) == a.milli < b.milli \/ (a.milli = b.milli /\ a.pico < b.pico)

\* 1e-10
AreaEps == Area(0, 100)

\* what trimesh.load(stl_path) gives: an exception, a Scene of geometries, or
\* a single mesh
Unreadable(msg) == [kind |-> "unreadable", error |-> msg]
Scene(geometries) == [kind |-> "scene", geometries |-> geometries]
Single(mesh) == [kind |-> "mesh", mesh |-> mesh]
NoFile == [kind |-> "none"]

\* the outcomes of analyze_mesh
Raised(msg) == [raised |-> TRUE, error |-> msg]
Returned(mesh_report, mesh) == [raised |-> FALSE, report |-> mesh_report, mesh |-> mesh]
NotRun == [raised |-> FALSE]

Min(a, b) == IF a <= b THEN a ELSE b
Max(a, b) == IF a >= b THEN a ELSE b

\* trimesh.util.concatenate of two meshes
Concat2(m1, m2) ==
  WithFaces(
    Mesh(<< <<Min(m1.bounds[1][1], m2.bounds[1][1]), Min(m1.bounds[1][2], m2.bounds[1][2]),
              Min(m1.bounds[1][3], m2.bounds[1][3])>>,
            <<Max(m1.bounds[2][1], m2.bounds[2][1]), Max(m1.bounds[2][2], m2.bounds[2][2]),
              Max(m1.bounds[2][3], m2.bounds[2][3])>> >>,
         m1.vertices + m2.vertices,
         m1.is_watertight /\ m2.is_watertight,
         m1.is_winding_consistent /\ m2.is_winding_consistent,
         m1.area_faces \o m2.area_faces),
    m1.face_normals \o m2.face_normals,
    m1.triangles_center \o m2.triangles_center)

RECURSIVE Concatenate(_, _)
Concatenate(geometries, k) ==
    IF k = 1 THEN geometries[1]
    ELSE Concat2(Concatenate(geometries, k - 1), geometries[k])

WatertightWarning == [text |-> "Mesh is not watertight - may have holes or gaps"]
WindingWarning ==
    [text |-> "Face winding is inconsistent - some faces may be inverted"]
DegenerateError(count) ==
    [text |-> "Found {degenerate_count} degenerate faces (zero area)", count |-> count]

\* IsDegenerate counting an area of exactly 1e-10 too
IsDegenerate_Inclusive(area) == ~AreaLess(AreaEps, area)

\* face_areas < 1e-10, for one face
IsDegenerate(area) == AreaLess(area, AreaEps)

\* np.sum(face_areas < 1e-10)
DegenerateCount(areas) == Cardinality({k \in DOMAIN areas : IsDegenerate(areas[k])})

MeshWarnings(mesh) ==
    (IF ~mesh.is_watertight THEN <<WatertightWarning>> ELSE <<>>)
    \o (IF ~mesh.is_winding_consistent THEN <<WindingWarning>> ELSE <<>>)

MeshErrors(mesh) ==
    IF DegenerateCount(mesh.area_faces) > 0
    THEN <<DegenerateError(DegenerateCount(mesh.area_faces))>>
    ELSE <<>>

\* the report of a mesh that has bounds
MeshReport(mesh) ==
    [stats |-> [vertices |-> mesh.vertices,
                faces |-> Len(mesh.area_faces),
                bounding_box |-> [min |-> mesh.bounds[1], max |-> mesh.bounds[2],
                                  dimensions |-> Dims(mesh.bounds)]],
     validation |-> [is_watertight |-> mesh.is_watertight,
                     is_winding_consistent |-> mesh.is_winding_consistent],
     errors |-> MeshErrors(mesh),
     warnings |-> MeshWarnings(mesh)]

\* the part of analyze_mesh after the mesh is in hand: bounds[0] of a mesh
\* without bounds raises TypeError
AnalyzeLoaded(mesh) ==
    IF mesh.bounds = NoneList
    THEN Raised("'NoneType' object is not subscriptable")
    ELSE Returned(MeshReport(mesh), mesh)

\* analyze_mesh(stl_path), given what trimesh.load finds there
AnalyzeMesh(loaded) ==
    IF loaded.kind = "unreadable" THEN Raised(loaded.error)
    ELSE IF loaded.kind = "scene"
         THEN IF loaded.geometries = <<>>
              THEN Raised("No mesh geometries found in STL")
              ELSE AnalyzeLoaded(Concatenate(loaded.geometries, Len(loaded.geometries)))
    ELSE AnalyzeLoaded(loaded.mesh)

AM_Analyze ==
    /\ pc = "am"
    /\ analysed' = AnalyzeMesh(stl)
    /\ pc' = "am_done"
    /\ UNCHANGED <<meshes, placements, analysis_dir, ciVars, saVars, stl, mainVars, geoVars>>

-----------------------------------------------------------------------------
(* check_intersections *)

OverlapTol == 500
OutsideTol == 500

AxisName == <<"X", "Y", "Z">>

\* get_placed_bounds: bounds = <<min, max>>, shifted on a copy
GetPlacedBounds(name, mesh, pl) ==
    IF name \in DOMAIN pl
    THEN LET offset_x == DictGet(pl[name], "x", 0)
             offset_y == DictGet(pl[name], "y", 0)
             b == mesh.bounds
         IN  << <<b[1][1] + offset_x, b[1][2] + offset_y, b[1][3]>>,
                <<b[2][1] + offset_x, b[2][2] + offset_y, b[2][3]>> >>
    ELSE mesh.bounds

\* mesh.bounds after get_placed_bounds, had it shifted the array of the mesh
BoundsAfterPlaced_InPlace(name, mesh, pl) == GetPlacedBounds(name, mesh, pl)

\* mesh.bounds after get_placed_bounds(name, mesh): the offsets are added to
\* bounds = mesh.bounds.copy(), the array of the mesh is not written
BoundsAfterPlaced(name, mesh, pl) == mesh.bounds

\* SeparatedOn with strict comparisons: touching at exactly 0.5 overlaps
SeparatedOn_Strict(bounds1, bounds2, dim) ==
    \/ bounds1[2][dim] < bounds2[1][dim] + OverlapTol
    \/ bounds2[2][dim] < bounds1[1][dim] + OverlapTol

\* SeparatedOn testing one direction only
SeparatedOn_OneSided(bounds1, bounds2, dim) ==
    bounds1[2][dim] <= bounds2[1][dim] + OverlapTol

\* One test of the loop "for dim in range(3)"
SeparatedOn(bounds1, bounds2, dim) ==
    \/ bounds1[2][dim] <= bounds2[1][dim] + OverlapTol
    \/ bounds2[2][dim] <= bounds1[1][dim] + OverlapTol

\* overlap = True; for dim in range(3): if separated: overlap = False; break
RECURSIVE OverlapFrom(_, _, _)
OverlapFrom(bounds1, bounds2, dim) ==
    IF dim > 3 THEN TRUE
    ELSE IF SeparatedOn(bounds1, bounds2, dim) THEN FALSE
    ELSE OverlapFrom(bounds1, bounds2, dim + 1)

Overlaps(bounds1, bounds2) == OverlapFrom(bounds1, bounds2, 1)

ExtendsIssue(name, axis, side) ==
    [kind |-> "extends outside box", name |-> name, axis |-> axis, side |-> side]

CollisionIssue(n1, n2) == [kind |-> "Collision", a |-> n1, b |-> n2]

\* the two tests made for one axis of a tray/box pair
OutsideOn(n1, bounds1, bounds2, dim) ==
    (IF bounds1[1][dim] < bounds2[1][dim] - OutsideTol
     THEN <<ExtendsIssue(n1, AxisName[dim], "min")>> ELSE <<>>)
    \o
    (IF bounds1[2][dim] > bounds2[2][dim] + OutsideTol
     THEN <<ExtendsIssue(n1, AxisName[dim], "max")>> ELSE <<>>)

\* which branch of "if overlap:" is taken
IsTrayBoxPair(n1, n2) == ContainsTray(Lower(n1)) /\ n2 = "box"
\* IsTrayTrayPair without lower(): a capitalised name is not a tray
IsTrayTrayPair_NoLower(n1, n2) == ContainsTray(n1) /\ ContainsTray(n2)

IsTrayTrayPair(n1, n2) == ContainsTray(Lower(n1)) /\ ContainsTray(Lower(n2))

\* PairIssues making the tests of a tray against the box whether or not the
\* two overlap
PairIssues_Unguarded(n1, bounds1, n2, bounds2, ov) ==
    IF IsTrayBoxPair(n1, n2)
    THEN OutsideOn(n1, bounds1, bounds2, 1)
         \o OutsideOn(n1, bounds1, bounds2, 2)
         \o OutsideOn(n1, bounds1, bounds2, 3)
    ELSE IF ov /\ IsTrayTrayPair(n1, n2) THEN <<CollisionIssue(n1, n2)>>
    ELSE <<>>

\* the issues appended for one pair, given its overlap flag
PairIssues(n1, bounds1, n2, bounds2, ov) ==
    IF ~ov THEN <<>>
    ELSE IF IsTrayBoxPair(n1, n2)
         THEN OutsideOn(n1, bounds1, bounds2, 1)
              \o OutsideOn(n1, bounds1, bounds2, 2)
              \o OutsideOn(n1, bounds1, bounds2, 3)
    ELSE IF IsTrayTrayPair(n1, n2)
         THEN <<CollisionIssue(n1, n2)>>
    ELSE <<>>

\* entry of check_intersections: issues = [], first pair of the double loop
CI_Enter ==
    /\ i' = 1
    /\ j' = 2
    /\ name1' = ""
    /\ name2' = ""
    /\ overlap' = FALSE
    /\ issues' = <<>>

\* one iteration of the inner loop, for the pair (mesh_list[i], mesh_list[j])
CI_Pair ==
    /\ pc = "ci"
    /\ j <= Len(meshes)
    /\ LET n1 == meshes[i].name
           n2 == meshes[j].name
           bounds1 == GetPlacedBounds(n1, meshes[i].mesh, placements)
           bounds2 == GetPlacedBounds(n2, meshes[j].mesh, placements)
           ov == Overlaps(bounds1, bounds2)
       IN  /\ name1' = n1
           /\ name2' = n2
           /\ overlap' = ov
           /\ issues' = issues \o PairIssues(n1, bounds1, n2, bounds2, ov)
           /\ meshes' = [meshes EXCEPT
                            ![i].mesh.bounds = BoundsAfterPlaced(n1, meshes[i].mesh, placements),
                            ![j].mesh.bounds = BoundsAfterPlaced(n2, meshes[j].mesh, placements)]
    /\ IF j < Len(meshes)
       THEN i' = i /\ j' = j + 1
       ELSE i' = i + 1 /\ j' = i + 2
    /\ UNCHANGED <<pc, placements, analysis_dir, saVars, amVars, mainVars, geoVars>>

\* both loops exhausted: return issues
CI_Return ==
    /\ pc = "ci"
    /\ j > Len(meshes)
    /\ pc' = "ci_done"
    /\ UNCHANGED <<meshes, placements, ciVars, analysis_dir, saVars, amVars, mainVars, geoVars>>

-----------------------------------------------------------------------------
(* compute_spatial_analysis *)

DefaultWall == 3000
DefaultFloor == 2000
DefaultTolerance == 500
FitTol == 100

\* the position of the first box of the list whose id equals box_id, 0 if
\* none: box.get("id") and context.get("box_id") are both None when absent
RECURSIVE SelectedBox(_, _, _)
SelectedBox(boxes, box_id, k) ==
    IF k > Len(boxes) THEN 0
    ELSE IF DictGet(boxes[k], "id", None) = box_id THEN k
    ELSE SelectedBox(boxes, box_id, k + 1)

\* box_params, {} unless both files exist and a box is selected
BoxParams(dir) ==
    IF "project.json" \in DOMAIN dir /\ "context.json" \in DOMAIN dir
    THEN LET project == dir["project.json"]
             context == dir["context.json"]
             box_id == DictGet(context, "box_id", None)
             boxes == DictGet(project, "boxes", <<>>)
             k == SelectedBox(boxes, box_id, 1)
         IN  IF k = 0 THEN EmptyDict
             ELSE [wall_thickness |-> DictGet(boxes[k], "wallThickness", DefaultWall),
                   floor_thickness |-> DictGet(boxes[k], "floorThickness", DefaultFloor),
                   tolerance |-> DictGet(boxes[k], "tolerance", DefaultTolerance)]
    ELSE EmptyDict

\* box_exterior, None without a "box" mesh
BoxExterior(ms) ==
    IF HasKey(ms, "box") THEN Dims(Lookup(ms, "box").bounds) ELSE NoneList

\* BoxInterior taking one wall off each horizontal extent instead of two
BoxInterior_OneWall(exterior, wall, floor) ==
    IF exterior = NoneList THEN NoneList
    ELSE <<exterior[1] - wall, exterior[2] - wall, exterior[3] - floor>>

\* box_interior, None without box_exterior
BoxInterior(exterior, wall, floor) ==
    IF exterior = NoneList THEN NoneList
    ELSE <<exterior[1] - 2 * wall, exterior[2] - 2 * wall, exterior[3] - floor>>

TrayInfo(name, mesh, pl) ==
    LET dims == Dims(mesh.bounds)
        placement == DictGet(pl, name, EmptyDict)
        pos_x == DictGet(placement, "x", 0)
        pos_y == DictGet(placement, "y", 0)
    IN  [name |-> name,
         dimensions |-> [width |-> dims[1], depth |-> dims[2], height |-> dims[3]],
         position |-> [x |-> pos_x, y |-> pos_y],
         bounds |-> [x |-> <<pos_x, pos_x + dims[1]>>, y |-> <<pos_y, pos_y + dims[2]>>]]

\* the loop over meshes.items(): the tray_info of every mesh whose lower-cased
\* name contains "tray", in the order of the mapping
RECURSIVE TrayInfos(_, _, _)
TrayInfos(ms, pl, k) ==
    IF k > Len(ms) THEN <<>>
    ELSE IF ContainsTray(Lower(ms[k].name))
         THEN <<TrayInfo(ms[k].name, ms[k].mesh, pl)>> \o TrayInfos(ms, pl, k + 1)
    ELSE TrayInfos(ms, pl, k + 1)

\* max_tray_width / max_tray_height: a running max that starts at 0
RECURSIVE MaxDimension(_, _, _)
MaxDimension(trays, field, k) ==
    IF k = 0 THEN 0
    ELSE Max(MaxDimension(trays, field, k - 1), trays[k].dimensions[field])

\* list.sort(key=position.y) is stable: insert t after the last item whose
\* key is <= its own
RECURSIVE InsertByY(_, _)
InsertByY(sorted, t) ==
    IF sorted = <<>> THEN <<t>>
    ELSE IF sorted[Len(sorted)].position.y <= t.position.y THEN Append(sorted, t)
    ELSE Append(InsertByY(SubSeq(sorted, 1, Len(sorted) - 1), t), sorted[Len(sorted)])

RECURSIVE SortByY(_, _)
SortByY(trays, k) ==
    IF k = 0 THEN <<>> ELSE InsertByY(SortByY(trays, k - 1), trays[k])

\* total_tray_depth: the far edge of the last tray of the sorted list, 0 if none
TotalTrayDepth(sorted) ==
    IF sorted = <<>> THEN 0 ELSE sorted[Len(sorted)].bounds.y[2]

\* round(v, 2) in thousandths: to the nearest multiple of 10, halves to even
Round2(v) ==
    LET r == v % 10
        lo == v - r
    IN  IF r < 5 THEN lo
        ELSE IF r > 5 THEN lo + 10
        ELSE IF (lo \div 10) % 2 = 0 THEN lo ELSE lo + 10

\* Fits without the 0.1 margin
Fits_NoMargin(capacity, aggregate) == capacity >= aggregate

\* capacity >= aggregate - 0.1
Fits(capacity, aggregate) == capacity >= aggregate - FitTol

\* fit_check, {} without box_interior
FitCheck(interior, width, depth, height) ==
    IF interior = NoneList THEN EmptyDict
    ELSE [interior_width |-> interior[1],
          interior_depth |-> interior[2],
          interior_height |-> interior[3],
          max_tray_width |-> width,
          total_tray_depth |-> depth,
          max_tray_height |-> height,
          width_gap |-> Round2(interior[1] - width),
          depth_gap |-> Round2(interior[2] - depth),
          height_clearance |-> Round2(interior[3] - height),
          fits_width |-> Fits(interior[1], width),
          fits_depth |-> Fits(interior[2], depth),
          fits_height |-> Fits(interior[3], height)]

\* ComputeSpatialAnalysis with the configured tolerance as the margin of the
\* fit flags
ComputeSpatialAnalysis_ConfiguredMargin(ms, pl, dir) ==
    LET box_params == BoxParams(dir)
        wall == DictGet(box_params, "wall_thickness", DefaultWall)
        floor == DictGet(box_params, "floor_thickness", DefaultFloor)
        margin == DictGet(box_params, "tolerance", DefaultTolerance)
        box_exterior == BoxExterior(ms)
        box_interior == BoxInterior(box_exterior, wall, floor)
        unsorted == TrayInfos(ms, pl, 1)
        trays == SortByY(unsorted, Len(unsorted))
        fit == FitCheck(box_interior,
                        MaxDimension(unsorted, "width", Len(unsorted)),
                        TotalTrayDepth(trays),
                        MaxDimension(unsorted, "height", Len(unsorted)))
    IN  [box_params |-> box_params,
         box_exterior_mm |-> box_exterior,
         box_interior_mm |-> box_interior,
         trays |-> trays,
         fit_check |->
             IF fit = EmptyDict THEN fit
             ELSE [fit EXCEPT
                      !.fits_width = fit.interior_width >= fit.max_tray_width - margin,
                      !.fits_depth = fit.interior_depth >= fit.total_tray_depth - margin,
                      !.fits_height = fit.interior_height >= fit.max_tray_height - margin]]

\* the whole function
ComputeSpatialAnalysis(ms, pl, dir) ==
    LET box_params == BoxParams(dir)
        wall == DictGet(box_params, "wall_thickness", DefaultWall)
        floor == DictGet(box_params, "floor_thickness", DefaultFloor)
        box_exterior == BoxExterior(ms)
        box_interior == BoxInterior(box_exterior, wall, floor)
        unsorted == TrayInfos(ms, pl, 1)
        trays == SortByY(unsorted, Len(unsorted))
    IN  [box_params |-> box_params,
         box_exterior_mm |-> box_exterior,
         box_interior_mm |-> box_interior,
         trays |-> trays,
         fit_check |-> FitCheck(box_interior,
                                MaxDimension(unsorted, "width", Len(unsorted)),
                                TotalTrayDepth(trays),
                                MaxDimension(unsorted, "height", Len(unsorted)))]

SA_Compute ==
    /\ pc = "sa"
    /\ spatial' = ComputeSpatialAnalysis(meshes, placements, analysis_dir)
    /\ pc' = "sa_done"
    /\ UNCHANGED <<meshes, placements, analysis_dir, ciVars, amVars, mainVars, geoVars>>

-----------------------------------------------------------------------------
(* Inputs: meshes and placements *)

MaxMeshes == 2             \* meshes in one call of check_intersections

Box3(x1, x2, y1, y2, z1, z2) == << <<x1, y1, z1>>, <<x2, y2, z2>> >>

Solid(bounds) == Mesh(bounds, 8, TRUE, TRUE, <<Area(1000, 0), Area(1000, 0)>>)

BoxBounds == Box3(0, 100000, 0, 100000, 0, 100000)
LidBounds == Box3(0, 100000, 0, 100000, 98000, 102000)
TrayIn == Box3(1000, 50000, 1000, 50000, 2000, 30000)
TrayEdge == Box3(-500, 50000, 1000, 100500, -500, 100500)
TrayOut == Box3(-501, 50000, 1000, 100501, -501, 100501)
TrayTouch == Box3(49500, 90000, 1000, 50000, 2000, 30000)
TrayTouchZ == Box3(1000, 50000, 1000, 50000, 29500, 60000)
TrayPen == Box3(49499, 100501, -501, 50000, 2000, 30000)
TrayFar == Box3(200000, 250000, 1000, 50000, 2000, 30000)
TrayGraze == Box3(-60000, 500, 1000, 50000, 2000, 30000)

BoundsFor(name) ==
    CASE name = "box" -> {BoxBounds}
      [] name = "lid" -> {LidBounds}
      [] name = "tray_A_a" ->
            {TrayIn, TrayEdge, TrayOut, TrayTouch, TrayTouchZ, TrayPen, TrayFar, TrayGraze}
      [] name = "tray_B_b" -> {TrayIn, TrayPen, TrayTouchZ}
      [] OTHER -> {TrayIn, TrayOut}

Range(s) == {s[k] : k \in DOMAIN s}

\* sequences of n distinct elements of S
RECURSIVE DistinctSeqs(_, _)
DistinctSeqs(S, n) ==
    IF n = 0 THEN {<<>>}
    ELSE UNION {{Append(s, x) : x \in S \ Range(s)} : s \in DistinctSeqs(S, n - 1)}

\* the ordered dicts with these names in this order
RECURSIVE DictsFor(_)
DictsFor(names) ==
    IF names = <<>> THEN {<<>>}
    ELSE LET n == Len(names)
         IN  {Append(d, [name |-> names[n], mesh |-> Solid(b)]) :
                 d \in DictsFor(SubSeq(names, 1, n - 1)), b \in BoundsFor(names[n])}

MeshDicts(maxLen) ==
    UNION {DictsFor(ns) : ns \in UNION {DistinctSeqs(MeshNames, n) : n \in 0..maxLen}}

\* main() keys placements by "tray_<letter>_<name>"
PlacementKeys == {"tray_A_a", "tray_B_b"}
PlacementValues ==
    {EmptyDict, [x |-> 48500], [y |-> 48499], [x |-> 48500, y |-> 48499]}

PlacementDicts(keys) == UNION {[D -> PlacementValues] : D \in SUBSET keys}

NamesOf(items) == {items[k].name : k \in DOMAIN items}

-----------------------------------------------------------------------------
(* check_intersections on its own *)

InitCI ==
    /\ pc = "ci"
    /\ meshes \in MeshDicts(MaxMeshes)
    /\ placements \in PlacementDicts(PlacementKeys \cap NamesOf(meshes))
    /\ i = 1
    /\ j = 2
    /\ name1 = ""
    /\ name2 = ""
    /\ overlap = FALSE
    /\ issues = <<>>
    /\ analysis_dir = EmptyDict
    /\ spatial = EmptyDict
    /\ stl = NoFile
    /\ analysed = NotRun
    /\ stl_files = <<>>
    /\ file_idx = 1
    /\ report = EmptyDict
    /\ calls = {}
    /\ arg_mesh = NoMesh
    /\ arg_dims = NoneList
    /\ clusters = <<>>
    /\ result = <<>>

NextCI == CI_Pair \/ CI_Return

SpecCI == InitCI /\ [][NextCI]_vars

-----------------------------------------------------------------------------
(* Properties of check_intersections, stated on the inputs and the result *)

\* the placement shift of a mesh on one axis: x on X, y on Y, nothing on Z,
\* and 0 where the entry or the component is missing
ShiftOf(name, dim) ==
    IF dim = 3 \/ name \notin DOMAIN placements THEN 0
    ELSE IF dim = 1
         THEN (IF "x" \in DOMAIN placements[name] THEN placements[name].x ELSE 0)
         ELSE (IF "y" \in DOMAIN placements[name] THEN placements[name].y ELSE 0)

PlacedLo(k, dim) == meshes[k].mesh.bounds[1][dim] + ShiftOf(meshes[k].name, dim)
PlacedHi(k, dim) == meshes[k].mesh.bounds[2][dim] + ShiftOf(meshes[k].name, dim)

\* on every axis neither box's max is <= the other's min + 0.5
BoxesOverlap(k1, k2) ==
    \A dim \in 1..3 :
        /\ ~(PlacedHi(k1, dim) <= PlacedLo(k2, dim) + 500)
        /\ ~(PlacedHi(k2, dim) <= PlacedLo(k1, dim) + 500)

\* a content mesh: the name contains "tray", in any letter case
IsContent(name) == name \in {"tray_A_a", "tray_B_b", "Tray_C_c"}

Reported(issue) == \E k \in DOMAIN issues : issues[k] = issue
TimesReported(S) == Cardinality({k \in DOMAIN issues : issues[k] \in S})

\* what C1 asks of one tray/box pair, whatever their order in the mapping
OutsideReported(t, b) ==
    \A dim \in 1..3 :
        /\ Reported(ExtendsIssue(meshes[t].name, AxisName[dim], "min"))
              <=> PlacedLo(t, dim) < PlacedLo(b, dim) - 500
        /\ Reported(ExtendsIssue(meshes[t].name, AxisName[dim], "max"))
              <=> PlacedHi(t, dim) > PlacedHi(b, dim) + 500

\* C1: for every tray/box pair whose placed bounding boxes overlap, and for
\* every axis, "<tray> extends outside box on <axis> min" is reported iff
\* tray.min < box.min - 0.5 and "... max" iff tray.max > box.max + 0.5,
\* whichever of the two meshes comes first in the input mapping.
C1_OutsideEitherOrder ==
    pc = "ci_done" =>
        \A t \in DOMAIN meshes : \A b \in DOMAIN meshes :
            (IsContent(meshes[t].name) /\ meshes[b].name = "box" /\ BoxesOverlap(t, b))
                => OutsideReported(t, b)

\* C1, as the code has it: the same, for the pairs in which the tray comes
\* before the box in the mapping; a pair with the box first reports nothing.
C1_OutsideTrayFirst ==
    pc = "ci_done" =>
        \A t \in DOMAIN meshes : \A b \in DOMAIN meshes :
            (IsContent(meshes[t].name) /\ meshes[b].name = "box" /\ BoxesOverlap(t, b))
                => IF t < b THEN OutsideReported(t, b)
                   ELSE \A dim \in 1..3 : \A side \in {"min", "max"} :
                            ~Reported(ExtendsIssue(meshes[t].name, AxisName[dim], side))

C3_OverlapSymmetric ==
    \A k1 \in DOMAIN meshes : \A k2 \in DOMAIN meshes :
        LET a == GetPlacedBounds(meshes[k1].name, meshes[k1].mesh, placements)
            b == GetPlacedBounds(meshes[k2].name, meshes[k2].mesh, placements)
        IN  Overlaps(a, b) = Overlaps(b, a)

\* C3 witness: a pair examined that is separated on X in one direction only
\* (A.max <= B.min + 0.5 but not B.max <= A.min + 0.5) and on no other axis,
\* so a one-sided test would answer differently for (B, A).
C3_Witness ==
    /\ pc = "ci_done"
    /\ \E k1 \in DOMAIN meshes : \E k2 \in DOMAIN meshes :
          /\ k1 < k2
          /\ PlacedHi(k2, 1) <= PlacedLo(k1, 1) + 500
          /\ ~(PlacedHi(k1, 1) <= PlacedLo(k2, 1) + 500)
          /\ \A dim \in 2..3 :
                /\ PlacedHi(k1, dim) > PlacedLo(k2, dim) + 500
                /\ PlacedHi(k2, dim) > PlacedLo(k1, dim) + 500

\* C4: for every unordered pair of two content meshes, exactly one collision
\* defect naming the two is reported if their placed bounding boxes overlap,
\* and none if they do not.
C4_CollisionIffOverlap ==
    pc = "ci_done" =>
        \A k1 \in DOMAIN meshes : \A k2 \in DOMAIN meshes :
            (k1 < k2 /\ IsContent(meshes[k1].name) /\ IsContent(meshes[k2].name))
                => TimesReported({CollisionIssue(meshes[k1].name, meshes[k2].name),
                                  CollisionIssue(meshes[k2].name, meshes[k1].name)})
                     = (IF BoxesOverlap(k1, k2) THEN 1 ELSE 0)

\* C4 witness: a call with two trays whose placed boxes overlap, one of them
\* named with a capital letter, and the collision reported.
C4_Witness ==
    /\ pc = "ci_done"
    /\ \E k1 \in DOMAIN meshes : \E k2 \in DOMAIN meshes :
          /\ k1 < k2
          /\ meshes[k1].name = "Tray_C_c"
          /\ IsContent(meshes[k2].name)
          /\ BoxesOverlap(k1, k2)
          /\ Reported(CollisionIssue(meshes[k1].name, meshes[k2].name))

\* the positions of the meshes of this name, and of "box"
IndicesOf(name) == {k \in DOMAIN meshes : meshes[k].name = name}

\* an issue that names this mesh
Names(issue, name) ==
    \/ issue.kind = "extends outside box" /\ issue.name = name
    \/ issue.kind = "Collision" /\ name \in {issue.a, issue.b}

\* C26: "extends outside box" is reported for a tray only when the placed
\* bounding box of the tray overlaps that of the box by more than 0.5 on
\* all three axes; a tray and a box that do not overlap produce no defect;
\* and no defect names a mesh that is neither a tray nor "box".
C26_OutsideOnlyWhenOverlapping ==
    pc = "ci_done" =>
        /\ \A k \in DOMAIN issues :
              issues[k].kind = "extends outside box" =>
                  /\ IsContent(issues[k].name)
                  /\ \E t \in IndicesOf(issues[k].name) : \E b \in IndicesOf("box") :
                        BoxesOverlap(t, b)
        /\ \A t \in DOMAIN meshes : \A b \in IndicesOf("box") :
              (IsContent(meshes[t].name) /\ ~BoxesOverlap(t, b) /\ Len(meshes) = 2)
                  => issues = <<>>
        /\ \A k \in DOMAIN issues : \A m \in DOMAIN meshes :
              Names(issues[k], meshes[m].name) => IsContent(meshes[m].name)
        /\ \A k \in DOMAIN issues :
              issues[k].kind = "Collision" =>
                  /\ IsContent(issues[k].a) /\ IsContent(issues[k].b)
                  /\ \E t \in IndicesOf(issues[k].a) : \E u \in IndicesOf(issues[k].b) :
                        BoxesOverlap(t, u)

\* a tray before the box, far beyond it on X: nothing is reported
C26_Witness ==
    /\ pc = "ci_done"
    /\ Len(meshes) = 2
    /\ IsContent(meshes[1].name)
    /\ meshes[2].name = "box"
    /\ PlacedLo(1, 1) > PlacedHi(2, 1) + 500
    /\ issues = <<>>

\* a tray through the wall of the box that overlaps it by exactly 0.5 on Z
C26_WitnessTouching ==
    /\ pc = "ci_done"
    /\ Len(meshes) = 2
    /\ IsContent(meshes[1].name)
    /\ meshes[2].name = "box"
    /\ \E dim \in 1..3 : PlacedLo(1, dim) < PlacedLo(2, dim) - 500
                         \/ PlacedHi(1, dim) > PlacedHi(2, dim) + 500
    /\ \E dim \in 1..3 : \/ PlacedHi(1, dim) = PlacedLo(2, dim) + 500
                         \/ PlacedHi(2, dim) = PlacedLo(1, dim) + 500
    /\ issues = <<>>

\* a tray and the lid that overlap
C26_WitnessLid ==
    /\ pc = "ci_done"
    /\ Len(meshes) = 2
    /\ \E t, l \in DOMAIN meshes :
          /\ IsContent(meshes[t].name)
          /\ meshes[l].name = "lid"
          /\ BoxesOverlap(t, l)
    /\ issues = <<>>

-----------------------------------------------------------------------------
(* compute_spatial_analysis on its own *)

MaxTrays == 2              \* tray meshes in one call
MaxBoxes == 2              \* boxes listed in project.json

\* tray geometries: 95 x 140 x 35; 52 x 70 x 35.004 away from the origin;
\* 100.1 x 20 x 40.1; 100.101 x 150.101 x 40.105
SATrayBounds ==
    {Box3(0, 95000, 0, 140000, 0, 35000),
     Box3(1000, 53000, 500, 70500, 0, 35004),
     Box3(0, 100100, 0, 20000, 0, 40100),
     Box3(0, 100101, 0, 150101, 0, 40105)}

\* box exteriors 106 x 156 x 42 and 56 x 156 x 42
SABoxBounds ==
    {Box3(0, 106000, 0, 156000, 0, 42000), Box3(-28000, 28000, 0, 156000, 0, 42000)}

SAPlacementValues ==
    {EmptyDict, [x |-> 5000], [y |-> 70000], [x |-> 5000, y |-> 130100]}

TrayNames == {"tray_A_a", "tray_B_b", "Tray_C_c"}

RECURSIVE TrayDicts(_)
TrayDicts(names) ==
    IF names = <<>> THEN {<<>>}
    ELSE LET n == Len(names)
         IN  {Append(d, [name |-> names[n], mesh |-> Solid(b)]) :
                 d \in TrayDicts(SubSeq(names, 1, n - 1)), b \in SATrayBounds}

\* up to maxLen trays in any order, with no box, or a box before or after them
SAMeshDicts(maxLen) ==
    LET trays == UNION {TrayDicts(ns) :
                    ns \in UNION {DistinctSeqs(TrayNames, n) : n \in 0..maxLen}}
        boxes == {[name |-> "box", mesh |-> Solid(b)] : b \in SABoxBounds}
    IN  trays \cup {<<b>> \o t : b \in boxes, t \in trays}
              \cup {t \o <<b>> : b \in boxes, t \in trays}

SAPlacementDicts(keys) == UNION {[D -> SAPlacementValues] : D \in SUBSET keys}

\* the box entries of project.json
BoxEntries ==
    {[id |-> "b1", wallThickness |-> 1500, floorThickness |-> 1000, tolerance |-> 300],
     [id |-> "b1", tolerance |-> 900],
     [id |-> "b2", wallThickness |-> 2500],
     [floorThickness |-> 500]}

Projects(maxLen) ==
    {EmptyDict} \cup
    {[boxes |-> bs] : bs \in UNION {DistinctSeqs(BoxEntries, n) : n \in 0..maxLen}}

Contexts == {EmptyDict, [box_id |-> "b1"], [box_id |-> "b2"]}

AnalysisDirs(maxLen) ==
    {EmptyDict}
    \cup {[f \in {"project.json"} |-> p] : p \in Projects(maxLen)}
    \cup {[f \in {"context.json"} |-> c] : c \in Contexts}
    \cup {[f \in {"project.json", "context.json"} |->
              IF f = "project.json" THEN p ELSE c] : p \in Projects(maxLen), c \in Contexts}

\* every geometry with a plain configuration, and every configuration with a
\* plain geometry
PlainDirs ==
    {EmptyDict,
     [f \in {"project.json", "context.json"} |->
         IF f = "project.json"
         THEN [boxes |-> <<[id |-> "b1", wallThickness |-> 1500,
                            floorThickness |-> 1000, tolerance |-> 300]>>]
         ELSE [box_id |-> "b1"]]}

PlainMeshDicts == SAMeshDicts(1)

InitSA ==
    /\ pc = "sa"
    /\ \/ /\ meshes \in SAMeshDicts(MaxTrays)
          /\ analysis_dir \in PlainDirs
       \/ /\ meshes \in PlainMeshDicts
          /\ analysis_dir \in AnalysisDirs(MaxBoxes)
    /\ placements \in SAPlacementDicts(PlacementKeys \cap NamesOf(meshes))
    /\ i = 1
    /\ j = 2
    /\ name1 = ""
    /\ name2 = ""
    /\ overlap = FALSE
    /\ issues = <<>>
    /\ spatial = EmptyDict
    /\ stl = NoFile
    /\ analysed = NotRun
    /\ stl_files = <<>>
    /\ file_idx = 1
    /\ report = EmptyDict
    /\ calls = {}
    /\ arg_mesh = NoMesh
    /\ arg_dims = NoneList
    /\ clusters = <<>>
    /\ result = <<>>

NextSA == SA_Compute

SpecSA == InitSA /\ [][NextSA]_vars

-----------------------------------------------------------------------------
(* Properties of compute_spatial_analysis *)

\* the content meshes of the call and the far edge of each along Y
ContentIdx == {k \in DOMAIN meshes : IsContent(meshes[k].name)}
FarEdge(k) ==
    ShiftOf(meshes[k].name, 2) + (meshes[k].mesh.bounds[2][2] - meshes[k].mesh.bounds[1][2])

HasFit == pc = "sa_done" /\ DOMAIN spatial.fit_check # {}

\* C5: total_tray_depth is the maximum over all trays of (placement y + depth).
C5_TotalDepthIsMaxFarEdge ==
    (HasFit /\ ContentIdx # {}) =>
        /\ \E k \in ContentIdx : spatial.fit_check.total_tray_depth = FarEdge(k)
        /\ \A k \in ContentIdx : spatial.fit_check.total_tray_depth >= FarEdge(k)

\* C5, as the code has it: total_tray_depth is the far edge of the tray with
\* the largest placement y, the last such tray of the mapping among equals,
\* whether or not another tray reaches further.
C5_TotalDepthIsLastByOffset ==
    (HasFit /\ ContentIdx # {}) =>
        \E k \in ContentIdx :
            /\ spatial.fit_check.total_tray_depth = FarEdge(k)
            /\ \A m \in ContentIdx :
                  \/ ShiftOf(meshes[m].name, 2) < ShiftOf(meshes[k].name, 2)
                  \/ (ShiftOf(meshes[m].name, 2) = ShiftOf(meshes[k].name, 2) /\ m <= k)

\* the three axes of the fit check: capacity, aggregate, flag and gap
FitAxis(axis) ==
    LET f == spatial.fit_check
    IN  CASE axis = "width" ->
                [capacity |-> f.interior_width, aggregate |-> f.max_tray_width,
                 fits |-> f.fits_width, gap |-> f.width_gap]
          [] axis = "depth" ->
                [capacity |-> f.interior_depth, aggregate |-> f.total_tray_depth,
                 fits |-> f.fits_depth, gap |-> f.depth_gap]
          [] OTHER ->
                [capacity |-> f.interior_height, aggregate |-> f.max_tray_height,
                 fits |-> f.fits_height, gap |-> f.height_clearance]

FitAxes == {"width", "depth", "height"}

FlagIsThreshold(axis) ==
    FitAxis(axis).fits <=> (FitAxis(axis).capacity >= FitAxis(axis).aggregate - 100)

\* the two worked cases of C6
FitExamples ==
    /\ (/\ \A axis \in FitAxes :
              FitAxis(axis).capacity =
                  (CASE axis = "width" -> 100000 [] axis = "depth" -> 150000 [] OTHER -> 40000)
        /\ \A axis \in FitAxes :
              FitAxis(axis).aggregate =
                  (CASE axis = "width" -> 95000 [] axis = "depth" -> 140000 [] OTHER -> 35000))
          => /\ \A axis \in FitAxes : FitAxis(axis).fits
             /\ FitAxis("width").gap = 5000
             /\ FitAxis("depth").gap = 10000
             /\ FitAxis("height").gap = 5000
    /\ (FitAxis("width").capacity = 50000 /\ FitAxis("width").aggregate = 52000)
          => (~FitAxis("width").fits /\ FitAxis("width").gap = -2000)

\* C6 as stated: per axis, fits iff capacity >= aggregate - 0.1, and the
\* reported gap equals capacity - aggregate.
C6_FitAndExactGap ==
    HasFit =>
        /\ \A axis \in FitAxes :
              /\ FlagIsThreshold(axis)
              /\ FitAxis(axis).gap = FitAxis(axis).capacity - FitAxis(axis).aggregate
        /\ FitExamples

\* C6 amended: per axis, fits iff capacity >= aggregate - 0.1, and the
\* reported gap is capacity - aggregate rounded to two decimals (a multiple of
\* 0.01 at most 0.005 away from it), so a negative gap means overflow; the two
\* worked cases hold as stated.
C6_FitAndRoundedGap ==
    HasFit =>
        /\ \A axis \in FitAxes :
              LET exact == FitAxis(axis).capacity - FitAxis(axis).aggregate
                  gap == FitAxis(axis).gap
              IN  /\ FlagIsThreshold(axis)
                  /\ gap % 10 = 0
                  /\ gap - exact <= 5
                  /\ exact - gap <= 5
                  /\ (gap < 0 => exact < 0)
        /\ FitExamples

\* C6 witness: capacity (100, 150, 40) with aggregate (95, 140, 35), all three
\* flags true, gaps (5, 10, 5).
C6_Witness ==
    /\ HasFit
    /\ spatial.fit_check.interior_width = 100000
    /\ spatial.fit_check.interior_depth = 150000
    /\ spatial.fit_check.interior_height = 40000
    /\ spatial.fit_check.max_tray_width = 95000
    /\ spatial.fit_check.total_tray_depth = 140000
    /\ spatial.fit_check.max_tray_height = 35000
    /\ spatial.fit_check.fits_width
    /\ spatial.fit_check.fits_depth
    /\ spatial.fit_check.fits_height
    /\ spatial.fit_check.width_gap = 5000
    /\ spatial.fit_check.depth_gap = 10000
    /\ spatial.fit_check.height_clearance = 5000

\* the second worked case of C6 is reached too
C6_SecondExampleReached ==
    /\ HasFit
    /\ spatial.fit_check.interior_width = 50000
    /\ spatial.fit_check.max_tray_width = 52000
    /\ ~spatial.fit_check.fits_width
    /\ spatial.fit_check.width_gap = -2000

\* the box the configuration selects: the first entry of project.json's boxes
\* whose id equals context.json's box_id (an entry without id and a context
\* without box_id compare equal, both being None); 0 when a file, the list or
\* such an entry is absent
IdOf(d, key) == IF key \in DOMAIN d THEN d[key] ELSE "<None>"
ConfiguredBoxes ==
    IF {"project.json", "context.json"} \subseteq DOMAIN analysis_dir
       /\ "boxes" \in DOMAIN analysis_dir["project.json"]
    THEN analysis_dir["project.json"].boxes
    ELSE <<>>
MatchingEntries ==
    {k \in DOMAIN ConfiguredBoxes :
        IdOf(ConfiguredBoxes[k], "id") = IdOf(analysis_dir["context.json"], "box_id")}
SelectedEntry ==
    IF MatchingEntries = {} THEN 0
    ELSE CHOOSE k \in MatchingEntries : \A m \in MatchingEntries : k <= m
ConfiguredOr(field, default) ==
    IF SelectedEntry # 0 /\ field \in DOMAIN ConfiguredBoxes[SelectedEntry]
    THEN ConfiguredBoxes[SelectedEntry][field]
    ELSE default

BoxIdx == {k \in DOMAIN meshes : meshes[k].name = "box"}

\* C7: interior capacity is (width - 2*wall, depth - 2*wall, height - floor)
\* of the box mesh, wall and floor being the selected box's wallThickness and
\* floorThickness, or 3 and 2 whenever a file, the selected box or the field
\* is absent; in every such case the function returns its full record.
C7_InteriorWithDefaults ==
    pc = "sa_done" =>
        /\ DOMAIN spatial = {"box_params", "box_exterior_mm", "box_interior_mm",
                             "trays", "fit_check"}
        /\ \A k \in BoxIdx :
              LET b == meshes[k].mesh.bounds
                  wall == ConfiguredOr("wallThickness", 3000)
                  floor == ConfiguredOr("floorThickness", 2000)
              IN  spatial.box_interior_mm =
                      <<(b[2][1] - b[1][1]) - 2 * wall,
                        (b[2][2] - b[1][2]) - 2 * wall,
                        (b[2][3] - b[1][3]) - floor>>

\* C7 witness: both files present, the selected box is the second entry and
\* gives a wall thickness but no floor thickness, and the interior is computed
\* from that wall and the default floor.
C7_Witness ==
    /\ pc = "sa_done"
    /\ BoxIdx # {}
    /\ SelectedEntry = 2
    /\ DOMAIN ConfiguredBoxes[2] = {"id", "wallThickness"}
    /\ spatial.box_interior_mm[1] = spatial.box_exterior_mm[1] - 5000
    /\ spatial.box_interior_mm[3] = spatial.box_exterior_mm[3] - 2000

-----------------------------------------------------------------------------
(* analyze_mesh on its own *)

MaxFaces == 2              \* faces of a mesh given to analyze_mesh

\* face areas: 0, 1e-12, 9.9e-11, 1e-10 exactly, 1 mm^2
FaceAreas == {Area(0, 0), Area(0, 1), Area(0, 99), Area(0, 100), Area(1000, 0)}

SeqsUpTo(S, n) == UNION {[1..m -> S] : m \in 1..n}

AMMeshes ==
    {Mesh(TrayIn, 3 * Len(areas), wt, wc, areas) :
        wt \in BOOLEAN, wc \in BOOLEAN, areas \in SeqsUpTo(FaceAreas, MaxFaces)}

\* a mesh without faces
EmptyMesh == Mesh(NoneList, 0, FALSE, TRUE, <<>>)

AMInputs ==
    {Single(m) : m \in AMMeshes}
    \cup {Single(EmptyMesh), Unreadable("cannot read file"), Scene(<<>>),
          Scene(<<Solid(TrayIn), Mesh(TrayFar, 3, FALSE, TRUE, <<Area(0, 1)>>)>>)}

InitAM ==
    /\ pc = "am"
    /\ stl \in AMInputs
    /\ analysed = NotRun
    /\ stl_files = <<>>
    /\ file_idx = 1
    /\ report = EmptyDict
    /\ calls = {}
    /\ arg_mesh = NoMesh
    /\ arg_dims = NoneList
    /\ clusters = <<>>
    /\ result = <<>>
    /\ meshes = <<>>
    /\ placements = EmptyDict
    /\ analysis_dir = EmptyDict
    /\ i = 1
    /\ j = 2
    /\ name1 = ""
    /\ name2 = ""
    /\ overlap = FALSE
    /\ issues = <<>>
    /\ spatial = EmptyDict

NextAM == AM_Analyze

SpecAM == InitAM /\ [][NextAM]_vars

-----------------------------------------------------------------------------
(* Properties of analyze_mesh *)

\* the mesh analyze_mesh validated, when it returned
Validated == analysed.mesh

\* the faces of area < 1e-10
TinyFaces == {k \in DOMAIN Validated.area_faces :
                 Validated.area_faces[k].milli = 0 /\ Validated.area_faces[k].pico < 100}

IsErrorEntry(e) == "count" \in DOMAIN e
IsWarningEntry(e) == e \in {WatertightWarning, WindingWarning}

\* C9: degenerate faces go to the errors list and integrity problems to the
\* warnings list, never the other way round: with n > 0 faces of area < 1e-10
\* the errors list is exactly one entry stating n, with n = 0 it is empty;
\* non-watertight and inconsistent winding each add exactly one warning.
C9_ErrorsAndWarnings ==
    (pc = "am_done" /\ ~analysed.raised) =>
        LET n == Cardinality(TinyFaces)
            errors == analysed.report.errors
            warnings == analysed.report.warnings
            times(w) == Cardinality({k \in DOMAIN warnings : warnings[k] = w})
        IN  /\ n > 0 => errors = <<DegenerateError(n)>>
            /\ n = 0 => errors = <<>>
            /\ \A k \in DOMAIN errors : IsErrorEntry(errors[k])
            /\ \A k \in DOMAIN warnings : IsWarningEntry(warnings[k])
            /\ times(WatertightWarning) = (IF Validated.is_watertight THEN 0 ELSE 1)
            /\ times(WindingWarning) = (IF Validated.is_winding_consistent THEN 0 ELSE 1)
            /\ Len(warnings) = times(WatertightWarning) + times(WindingWarning)

\* C9 witness: a mesh of one triangle of area 1e-12, not watertight and with
\* inconsistent winding: one error stating count 1, and the two warnings.
C9_Witness ==
    /\ pc = "am_done"
    /\ ~analysed.raised
    /\ Validated.area_faces = <<Area(0, 1)>>
    /\ analysed.report.errors = <<DegenerateError(1)>>
    /\ analysed.report.warnings = <<WatertightWarning, WindingWarning>>


-----------------------------------------------------------------------------
(* detect_ramps *)

Abs(x) == IF x < 0 THEN -x ELSE x

\* a / b rounded to the nearest integer, halves to even (b > 0)
RoundDiv(a, b) ==
    LET q == a \div b
        r == a % b
    IN  IF 2 * r < b THEN q
        ELSE IF 2 * r > b THEN q + 1
        ELSE IF q % 2 = 0 THEN q ELSE q + 1

DiagonalMin == 200         \* 0.2
DiagonalMax == 950         \* 0.95
ClusterCutoff == 3000      \* t = 3.0

\* np.sum(abs_normal > 0.2) and np.max(abs_normal)
NonZeroAxes(normal) == Cardinality({a \in 1..3 : Abs(normal[a]) > DiagonalMin})
MaxComponent(normal) == Max(Max(Abs(normal[1]), Abs(normal[2])), Abs(normal[3]))

\* IsDiagonal with the comparisons made inclusive
IsDiagonal_Inclusive(normal) ==
    /\ Cardinality({a \in 1..3 : Abs(normal[a]) >= DiagonalMin}) >= 2
    /\ MaxComponent(normal) <= DiagonalMax

\* non_zero_axes >= 2 and max_component < 0.95
IsDiagonal(normal) == NonZeroAxes(normal) >= 2 /\ MaxComponent(normal) < DiagonalMax

\* diagonal_faces, in the order of the faces
RECURSIVE DiagonalFrom(_, _)
DiagonalFrom(mesh, n) ==
    IF n > Len(mesh.face_normals) THEN <<>>
    ELSE (IF IsDiagonal(mesh.face_normals[n])
          THEN <<[index |-> n, center |-> mesh.triangles_center[n],
                  normal |-> mesh.face_normals[n], area |-> mesh.area_faces[n]]>>
          ELSE <<>>)
         \o DiagonalFrom(mesh, n + 1)

DiagonalFaces(mesh) == DiagonalFrom(mesh, 1)

\* WithinCutoff with a strict comparison
WithinCutoff_Strict(c1, c2) ==
    /\ \A a \in 1..3 : Abs(c1[a] - c2[a]) < ClusterCutoff
    /\ (c1[1] - c2[1]) * (c1[1] - c2[1]) + (c1[2] - c2[2]) * (c1[2] - c2[2])
         + (c1[3] - c2[3]) * (c1[3] - c2[3]) < ClusterCutoff * ClusterCutoff

\* the Euclidean distance of two centroids is no greater than the cutoff
WithinCutoff(c1, c2) ==
    /\ \A a \in 1..3 : Abs(c1[a] - c2[a]) <= ClusterCutoff
    /\ (c1[1] - c2[1]) * (c1[1] - c2[1]) + (c1[2] - c2[2]) * (c1[2] - c2[2])
         + (c1[3] - c2[3]) * (c1[3] - c2[3]) <= ClusterCutoff * ClusterCutoff

\* single linkage: the observations that merge with those of S below the cutoff
RECURSIVE Grow(_, _)
Grow(centers, S) ==
    LET T == S \cup {m \in DOMAIN centers : \E n \in S : WithinCutoff(centers[n], centers[m])}
    IN  IF T = S THEN S ELSE Grow(centers, T)

FlatCluster(centers, n) == Grow(centers, {n})

\* fclusterdata(centers, t=3.0, criterion='distance'): one label per
\* observation, equal for two observations iff they are in the same flat
\* cluster; which of the labels 1..K a cluster gets is scipy's choice
FClusterData(centers) ==
    LET flat == {FlatCluster(centers, n) : n \in DOMAIN centers}
        numberings == {f \in [flat -> 1..Cardinality(flat)] :
                          \A c1, c2 \in flat : f[c1] = f[c2] => c1 = c2}
    IN  {[n \in DOMAIN centers |-> f[FlatCluster(centers, n)]] : f \in numberings}

\* sums of face areas
AreaAdd(a, b) ==
    IF a.pico + b.pico >= 1000000000
    THEN Area(a.milli + b.milli + 1, a.pico + b.pico - 1000000000)
    ELSE Area(a.milli + b.milli, a.pico + b.pico)

RECURSIVE TotalArea(_, _)
TotalArea(faces, n) ==
    IF n = 0 THEN Area(0, 0) ELSE AreaAdd(TotalArea(faces, n - 1), faces[n].area)

\* round(total_area, 2), in thousandths
AreaRound2(a) ==
    LET r == a.milli % 10
        lo == a.milli - r
    IN  IF r < 5 THEN lo
        ELSE IF r > 5 \/ a.pico > 0 THEN lo + 10
        ELSE IF (lo \div 10) % 2 = 0 THEN lo ELSE lo + 10

MinFaces == 3              \* len(cluster_faces) < 3: skipped
MinArea == Area(1000, 0)   \* total_area < 1.0: skipped
MaxArea == Area(50000, 0)  \* total_area > 50.0: skipped

\* Kept with the two area bounds excluded
Kept_Exclusive(cluster_faces) ==
    /\ Len(cluster_faces) >= MinFaces
    /\ AreaLess(MinArea, TotalArea(cluster_faces, Len(cluster_faces)))
    /\ AreaLess(TotalArea(cluster_faces, Len(cluster_faces)), MaxArea)

\* neither "continue" of the loop over the clusters is taken
Kept(cluster_faces) ==
    /\ ~(Len(cluster_faces) < MinFaces)
    /\ ~(\/ AreaLess(TotalArea(cluster_faces, Len(cluster_faces)), MinArea)
         \/ AreaLess(MaxArea, TotalArea(cluster_faces, Len(cluster_faces))))

\* cluster_centers.min(axis=0), .max(axis=0) and cluster_normals summed
RECURSIVE ClusterMin(_, _, _)
ClusterMin(faces, a, n) ==
    IF n = 1 THEN faces[1].center[a]
    ELSE Min(ClusterMin(faces, a, n - 1), faces[n].center[a])

RECURSIVE ClusterMax(_, _, _)
ClusterMax(faces, a, n) ==
    IF n = 1 THEN faces[1].center[a]
    ELSE Max(ClusterMax(faces, a, n - 1), faces[n].center[a])

RECURSIVE NormalSum(_, _, _)
NormalSum(faces, a, n) ==
    IF n = 0 THEN 0 ELSE NormalSum(faces, a, n - 1) + faces[n].normal[a]

\* protrusion_dir, from the average normal (a positive multiple of it: the
\* comparisons and the signs are those of the sums)
ProtrusionDir(avg) ==
    IF Abs(avg[1]) > Abs(avg[2]) /\ Abs(avg[1]) > Abs(avg[3])
    THEN (IF avg[1] > 0 THEN "+X" ELSE "-X")
    ELSE IF Abs(avg[2]) > Abs(avg[1]) /\ Abs(avg[2]) > Abs(avg[3])
    THEN (IF avg[2] > 0 THEN "+Y" ELSE "-Y")
    ELSE "unknown"

Tag(text) == [tag |-> text]
\* f"mid Y ({rel_y:.0%})"
MidY(percent) == [tag |-> "mid Y", percent |-> percent]

\* position_desc, from twice the offset of the centre from the low corner
\* (twice2[a] = 2 * (center[a] - bounds[0][a])) and the dimensions:
\* rel < 0.2 iff 5 * twice2 < 2 * dims, and so on
PositionDesc(twice2, dims) ==
    (IF 5 * twice2[1] < 2 * dims[1] THEN <<Tag("left (low X)")>>
     ELSE IF 5 * twice2[1] > 8 * dims[1] THEN <<Tag("right (high X)")>>
     ELSE <<>>)
    \o (IF 5 * twice2[2] < 2 * dims[2] THEN <<Tag("front (low Y, entry)")>>
        ELSE IF 5 * twice2[2] > 8 * dims[2] THEN <<Tag("back (high Y, exit)")>>
        ELSE <<MidY(RoundDiv(100 * twice2[2], 2 * dims[2]))>>)
    \o (IF 10 * twice2[3] < 6 * dims[3] THEN <<Tag("bottom")>>
        ELSE IF 10 * twice2[3] > 14 * dims[3] THEN <<Tag("top")>>
        ELSE <<>>)

\* ramp_info of one cluster
RampInfo(mesh, cluster_id, cluster_faces) ==
    LET n == Len(cluster_faces)
        cluster_min == [a \in 1..3 |-> ClusterMin(cluster_faces, a, n)]
        cluster_max == [a \in 1..3 |-> ClusterMax(cluster_faces, a, n)]
        dims == Dims(mesh.bounds)
        twice2 == [a \in 1..3 |-> cluster_min[a] + cluster_max[a] - 2 * mesh.bounds[1][a]]
        avg == [a \in 1..3 |-> NormalSum(cluster_faces, a, n)]
    IN  [cluster_id |-> cluster_id,
         face_count |-> n,
         total_area_mm2 |-> AreaRound2(TotalArea(cluster_faces, n)),
         position |-> [center |-> [a \in 1..3 |->
                                      10 * RoundDiv(cluster_min[a] + cluster_max[a], 20)],
                       min |-> [a \in 1..3 |-> Round2(cluster_min[a])],
                       max |-> [a \in 1..3 |-> Round2(cluster_max[a])],
                       size |-> [a \in 1..3 |-> Round2(cluster_max[a] - cluster_min[a])]],
         relative_position |-> [x |-> RoundDiv(100 * twice2[1], 2 * dims[1]),
                                y |-> RoundDiv(100 * twice2[2], 2 * dims[2]),
                                z |-> RoundDiv(100 * twice2[3], 2 * dims[3])],
         position_description |-> PositionDesc(twice2, dims),
         normal_sum |-> avg,
         protrusion_direction |-> ProtrusionDir(avg)]

\* cluster_faces: the diagonal faces labelled cluster_id, from the n-th on
RECURSIVE ClusterFaces(_, _, _, _)
ClusterFaces(diagonal_faces, labels, cluster_id, n) ==
    IF n > Len(diagonal_faces) THEN <<>>
    ELSE (IF labels[n] = cluster_id THEN <<diagonal_faces[n]>> ELSE <<>>)
         \o ClusterFaces(diagonal_faces, labels, cluster_id, n + 1)

\* the loop "for cluster_id in np.unique(clusters)", from cluster_id on
RECURSIVE RampsFrom(_, _, _, _)
RampsFrom(mesh, diagonal_faces, labels, cluster_id) ==
    IF cluster_id > Cardinality(Range(labels)) THEN <<>>
    ELSE LET cluster_faces == ClusterFaces(diagonal_faces, labels, cluster_id, 1)
         IN  (IF Kept(cluster_faces)
              THEN <<RampInfo(mesh, cluster_id, cluster_faces)>> ELSE <<>>)
             \o RampsFrom(mesh, diagonal_faces, labels, cluster_id + 1)

\* what fclusterdata can return for the diagonal faces of this mesh; <<>>
\* when detect_ramps returns before clustering
ClusterLabels(mesh) ==
    IF mesh = NoMesh THEN {<<>>}
    ELSE LET diagonal_faces == DiagonalFaces(mesh)
         IN  IF Len(diagonal_faces) < 2 THEN {<<>>}
             ELSE FClusterData([n \in DOMAIN diagonal_faces |-> diagonal_faces[n].center])

\* detect_ramps(mesh, mesh_name), given the labels fclusterdata returns
DetectRamps(mesh, mesh_name, labels) ==
    IF mesh = NoMesh THEN <<>>
    ELSE LET diagonal_faces == DiagonalFaces(mesh)
         IN  IF diagonal_faces = <<>> THEN <<>>
             ELSE IF Len(diagonal_faces) < 2 THEN <<>>
             ELSE RampsFrom(mesh, diagonal_faces, labels, 1)

\* every list detect_ramps can return for this mesh
DetectRampsResults(mesh, mesh_name) ==
    {DetectRamps(mesh, mesh_name, labels) : labels \in ClusterLabels(mesh)}

DR_Detect ==
    /\ pc = "dr"
    /\ \E labels \in ClusterLabels(arg_mesh) :
          /\ clusters' = labels
          /\ result' = DetectRamps(arg_mesh, "box", labels)
    /\ pc' = "dr_done"
    /\ UNCHANGED <<meshes, placements, analysis_dir, ciVars, saVars, amVars, mainVars,
                   arg_mesh, arg_dims>>

-----------------------------------------------------------------------------
(* main: the operators *)

\* stl_file.replace('.stl', ''), on the file names of the model
StripStl(stl_file) ==
    CASE stl_file = "box.stl" -> "box"
      [] stl_file = "lid.stl" -> "lid"
      [] stl_file = "tray_A_a.stl" -> "tray_A_a"
      [] stl_file = "tray_B_b.stl" -> "tray_B_b"
      [] stl_file = "current.stl" -> "current"
      [] OTHER -> stl_file

\* f"tray_{letter}_{name.replace(' ', '_')}", on the trays of the model
TrayKey(letter, name) ==
    CASE letter = "A" /\ name = "a" -> "tray_A_a"
      [] letter = "B" /\ name = "b" -> "tray_B_b"
      [] letter = "C" /\ name = "c c" -> "tray_C_c_c"
      [] OTHER -> "tray_?"

\* f"view-{name}.png"
ViewFile(name) ==
    CASE name = "box" -> "view-box.png"
      [] name = "lid" -> "view-lid.png"
      [] name = "tray_A_a" -> "view-tray_A_a.png"
      [] name = "tray_B_b" -> "view-tray_B_b.png"
      [] name = "current" -> "view-current.png"
      [] OTHER -> "view-?.png"

\* d[key] = v on a dict
DictPut(d, key, v) == [x \in DOMAIN d \cup {key} |-> IF x = key THEN v ELSE d[x]]

\* meshes[name] = mesh: a key already present keeps its position
MeshesPut(items, name, mesh) ==
    IF HasKey(items, name)
    THEN [items EXCEPT ![IndexOf(items, name, 1)] = [name |-> name, mesh |-> mesh]]
    ELSE Append(items, [name |-> name, mesh |-> mesh])

\* the loop over context.get("trays", []): a later entry with the same key
\* replaces an earlier one
RECURSIVE PlacementsFrom(_, _)
PlacementsFrom(trays, n) ==
    IF n = 0 THEN EmptyDict
    ELSE DictPut(PlacementsFrom(trays, n - 1),
                 TrayKey(trays[n].letter, trays[n].name),
                 DictGet(trays[n], "placement", EmptyDict))

\* placements as main builds it from the analysis directory
LoadPlacements(dir) ==
    IF "context.json" \in DOMAIN dir
    THEN LET trays == DictGet(dir["context.json"], "trays", <<>>)
         IN  PlacementsFrom(trays, Len(trays))
    ELSE EmptyDict

\* the report before the batch loop
EmptyReport ==
    [meshes |-> EmptyDict,
     combined_analysis |-> [total_vertices |-> 0, total_faces |-> 0, issues |-> <<>>]]

\* f"{name}: {msg}"
MeshIssue(name, msg) == [kind |-> "mesh", name |-> name, msg |-> msg]

\* "watertight" in warn.lower(), on the warnings analyze_mesh produces
MentionsWatertight(warn) ==
    warn.text = "Mesh is not watertight - may have holes or gaps"

\* KeptWarning keeping every warning
KeptWarning_All(warn) == TRUE

\* the warnings main copies: those the "continue" does not skip
KeptWarning(warn) == ~MentionsWatertight(warn)

\* the issues main appends for one analysed mesh: its errors, then its
\* warnings other than the watertight one
AggregatedIssues(name, mesh_report) ==
    LET kept == SelectSeq(mesh_report.warnings, KeptWarning)
    IN  [n \in 1..Len(mesh_report.errors) |-> MeshIssue(name, mesh_report.errors[n])]
        \o [n \in 1..Len(kept) |-> MeshIssue(name, kept[n])]

\* f"{v:.1f}" in thousandths: to the nearest multiple of 100, halves to even
Round1(v) ==
    LET r == v % 100
        lo == v - r
    IN  IF r < 50 THEN lo
        ELSE IF r > 50 THEN lo + 100
        ELSE IF (lo \div 100) % 2 = 0 THEN lo ELSE lo + 100

\* is_y_slide = depth > width
IsYSlide_OrEqual(dims) == dims[2] >= dims[1]
IsYSlide(dims) == dims[2] > dims[1]

WallThickness == 3000      \* wall_thickness = 3.0, wall = 3.0
GrooveDepth == 4000        \* groove_z_min = height - 4
GrooveTop == 500           \* groove_z_max = height - 0.5
RailDepth == 3000          \* rail_z_min = height - 3
ExitPercent == 85          \* exit threshold = 0.85 of the extent
AngledMaxZ == 900          \* abs(n[2]) < 0.9
AngledMinXY == 300         \* abs(n[0]) > 0.3 or abs(n[1]) > 0.3
RampFaces == 5             \* len(angled_faces) > 5
GrooveLength == 10000      \* wall + 10: the first and the last 10 mm
ProtrudingMin == 300       \* face_normals[i][0] > 0.3
EnoughProtruding == 10     \* protruding_faces > 10
SampleCount == 5           \* entry_faces[:5]

\* the faces of a mesh, as the analysers collect them
FaceAt(mesh, n) ==
    [center |-> mesh.triangles_center[n], normal |-> mesh.face_normals[n],
     area |-> mesh.area_faces[n]]

AllFaces(mesh) == [n \in DOMAIN mesh.area_faces |-> FaceAt(mesh, n)]

\* Within with both ends excluded
Within_Exclusive(center, a, lo, hi) == lo < center[a] /\ center[a] < hi

\* lo <= center[a] <= hi
Within(center, a, lo, hi) == lo <= center[a] /\ center[a] <= hi

\* center[a] > extent * 0.85
PastExit(center, a, extent) == 100 * center[a] > ExitPercent * extent

\* f"{extent * 0.85:.1f}"
ExitThreshold(extent) == 100 * RoundDiv(ExitPercent * extent, 10000)

\* matching_faces of a wall or rail region: across the slide within
\* [lo, hi], along the slide past the exit threshold, Z within [z_min, z_max]
MatchingFaces(mesh, across, lo, hi, along, extent, z_min, z_max) ==
    LET matches(f) == /\ Within(f.center, across, lo, hi)
                      /\ PastExit(f.center, along, extent)
                      /\ Within(f.center, 3, z_min, z_max)
    IN  SelectSeq(AllFaces(mesh), matches)

\* a face counted as angled
IsAngled(normal) ==
    /\ Abs(normal[3]) < AngledMaxZ
    /\ (Abs(normal[1]) > AngledMinXY \/ Abs(normal[2]) > AngledMinXY)

RECURSIVE CenterSum(_, _, _)
CenterSum(faces, a, n) ==
    IF n = 0 THEN 0 ELSE CenterSum(faces, a, n - 1) + faces[n].center[a]

\* "RAMP DETECTED" if len(angled_faces) > 5 else "Flat geometry only"
RegionStatus_AtLeast(angled) ==
    IF angled >= RampFaces THEN "RAMP DETECTED" ELSE "Flat geometry only"

RegionStatus(angled) ==
    IF angled > RampFaces THEN "RAMP DETECTED" ELSE "Flat geometry only"

\* analyze_wall_region, analyze_wall_region_x, analyze_rail_region and
\* analyze_rail_x: one body, with the axis across the slide (1 on a Y-slide,
\* 2 on an X-slide), the Z range of the groove or of the rail, and whether
\* flat_faces is reported (analyze_wall_region alone)
AnalyzeWallRegion(mesh, across, lo, hi, extent, z_min, z_max, with_flat) ==
    LET along == 3 - across
        matching_faces == MatchingFaces(mesh, across, lo, hi, along, extent, z_min, z_max)
        n == Len(matching_faces)
        angledFace(f) == IsAngled(f.normal)
        angled_faces == SelectSeq(matching_faces, angledFace)
        range == <<Round2(ClusterMin(matching_faces, along, n)),
                   Round2(ClusterMax(matching_faces, along, n))>>
    IN  IF matching_faces = <<>>
        THEN [faces_found |-> 0,
              status |-> "NO GEOMETRY AT EXPECTED RAMP LOCATION",
              detail |-> [across |-> <<Round1(lo), Round1(hi)>>,
                          along |-> ExitThreshold(extent),
                          z |-> <<Round1(z_min), Round1(z_max)>>]]
        ELSE [faces_found |-> n,
              total_area_mm2 |-> AreaRound2(TotalArea(matching_faces, n)),
              angled_faces |-> Len(angled_faces),
              status |-> RegionStatus(Len(angled_faces)),
              avg_position |-> [a \in 1..3 |->
                                   10 * RoundDiv(CenterSum(matching_faces, a, n), 10 * n)]]
             @@ (IF along = 2 THEN [y_range |-> range] ELSE [x_range |-> range])
             @@ (IF with_flat THEN [flat_faces |-> n - Len(angled_faces)] ELSE <<>>)

\* analyze_expected_ramp_positions(mesh, mesh_name, box_dims)
AnalyzeExpectedRampPositions(mesh, mesh_name, box_dims) ==
    IF mesh = NoMesh \/ box_dims = NoneList THEN EmptyDict
    ELSE LET width == box_dims[1]
             depth == box_dims[2]
             height == box_dims[3]
             groove_z_min == height - GrooveDepth
             groove_z_max == height - GrooveTop
             groove_z_range == <<Round1(groove_z_min), Round1(groove_z_max)>>
         IN  IF ~IsYSlide(box_dims)
             THEN [box_type |-> "X-slide (width > depth)",
                   expected_ramp_positions |->
                       [front_wall_y |-> Round1(WallThickness \div 2),
                        back_wall_y |-> Round1(depth - WallThickness \div 2),
                        exit_x_range |-> ExitThreshold(width),
                        groove_z_range |-> groove_z_range],
                   front_wall_analysis |->
                       AnalyzeWallRegion(mesh, 2, 0, WallThickness + 1000, width,
                                         groove_z_min, groove_z_max, FALSE),
                   back_wall_analysis |->
                       AnalyzeWallRegion(mesh, 2, depth - WallThickness - 1000, depth, width,
                                         groove_z_min, groove_z_max, FALSE)]
             ELSE [box_type |-> "Y-slide (depth > width)",
                   expected_ramp_positions |->
                       [left_wall_x |-> Round1(WallThickness \div 2),
                        right_wall_x |-> Round1(width - WallThickness \div 2),
                        exit_y_range |-> ExitThreshold(depth),
                        groove_z_range |-> groove_z_range],
                   left_wall_analysis |->
                       AnalyzeWallRegion(mesh, 1, 0, WallThickness + 1000, depth,
                                         groove_z_min, groove_z_max, TRUE),
                   right_wall_analysis |->
                       AnalyzeWallRegion(mesh, 1, width - WallThickness - 1000, width, depth,
                                         groove_z_min, groove_z_max, TRUE)]

\* analyze_lid_ramp_positions(mesh, lid_dims)
AnalyzeLidRampPositions(mesh, lid_dims) ==
    IF mesh = NoMesh \/ lid_dims = NoneList THEN EmptyDict
    ELSE LET width == lid_dims[1]
             depth == lid_dims[2]
             height == lid_dims[3]
             rail_z_min == height - RailDepth
             rail_z_max == height
             rail_z_range == <<Round1(rail_z_min), Round1(rail_z_max)>>
         IN  IF ~IsYSlide(lid_dims)
             THEN [lid_type |-> "X-slide (width > depth)",
                   expected_ramp_positions |->
                       [front_rail_y |-> Round1(WallThickness),
                        back_rail_y |-> Round1(depth - WallThickness),
                        exit_x_range |-> ExitThreshold(width),
                        rail_z_range |-> rail_z_range],
                   front_rail_analysis |->
                       AnalyzeWallRegion(mesh, 2, 0, WallThickness + 2000, width,
                                         rail_z_min, rail_z_max, FALSE),
                   back_rail_analysis |->
                       AnalyzeWallRegion(mesh, 2, depth - WallThickness - 2000, depth, width,
                                         rail_z_min, rail_z_max, FALSE)]
             ELSE [lid_type |-> "Y-slide (depth > width)",
                   expected_ramp_positions |->
                       [left_rail_x |-> Round1(WallThickness),
                        right_rail_x |-> Round1(width - WallThickness),
                        exit_y_range |-> ExitThreshold(depth),
                        rail_z_range |-> rail_z_range],
                   left_rail_analysis |->
                       AnalyzeWallRegion(mesh, 1, 0, WallThickness + 2000, depth,
                                         rail_z_min, rail_z_max, FALSE),
                   right_rail_analysis |->
                       AnalyzeWallRegion(mesh, 1, width - WallThickness - 2000, width, depth,
                                         rail_z_min, rail_z_max, FALSE)]

\* round(face_areas[i], 3), in thousandths
AreaRound3(a) ==
    IF a.pico < 500000000 THEN a.milli
    ELSE IF a.pico > 500000000 THEN a.milli + 1
    ELSE IF a.milli % 2 = 0 THEN a.milli ELSE a.milli + 1

\* get_groove_faces and get_groove_faces_x: the faces of the groove of the
\* first wall (across the slide within [0, wall + 2]) that lie along the
\* slide within [lo, hi], at groove height, and point into the box; a normal
\* in thousandths is its own rounding to three places
GrooveFaces(mesh, across, lo, hi, groove_z_min, groove_z_max) ==
    LET along == 3 - across
        protrudes(f) == /\ Within(f.center, across, 0, WallThickness + 2000)
                        /\ Within(f.center, along, lo, hi)
                        /\ Within(f.center, 3, groove_z_min, groove_z_max)
                        /\ f.normal[across] > ProtrudingMin
        faces == SelectSeq(AllFaces(mesh), protrudes)
    IN  [n \in DOMAIN faces |->
            [center |-> [a \in 1..3 |-> Round2(faces[n].center[a])],
             normal |-> faces[n].normal,
             area |-> AreaRound3(faces[n].area)]]

RECURSIVE RoundedAreaSum(_, _)
RoundedAreaSum(faces, n) ==
    IF n = 0 THEN 0 ELSE RoundedAreaSum(faces, n - 1) + faces[n].area

\* results["entry_region"] and results["exit_region"]
GrooveRegion(faces, lo, hi) ==
    [range |-> <<Round1(lo), Round1(hi)>>,
     protruding_faces |-> Len(faces),
     total_area |-> Round2(RoundedAreaSum(faces, Len(faces))),
     sample_positions |-> [n \in 1..Min(SampleCount, Len(faces)) |-> faces[n].center]]

\* the diagnosis, from the two counts
Diagnosis_ExitFirst(entry, exit) ==
    IF exit > EnoughProtruding
    THEN "OK: Protruding faces detected at EXIT region"
    ELSE IF entry > exit
    THEN "PROBLEM: More protruding faces at ENTRY than EXIT - ramp may be at wrong end!"
    ELSE "WARNING: Few protruding faces at EXIT - ramp may be missing or too small"

Diagnosis(entry, exit) ==
    IF entry > exit
    THEN "PROBLEM: More protruding faces at ENTRY than EXIT - ramp may be at wrong end!"
    ELSE IF exit > EnoughProtruding
    THEN "OK: Protruding faces detected at EXIT region"
    ELSE "WARNING: Few protruding faces at EXIT - ramp may be missing or too small"

\* compare_entry_vs_exit(mesh, mesh_name, box_dims); the two branches differ
\* in the axes only: x_range and y_range are both written range here
CompareEntryVsExit(mesh, mesh_name, box_dims) ==
    IF mesh = NoMesh \/ box_dims = NoneList THEN EmptyDict
    ELSE LET height == box_dims[3]
             is_y_slide == IsYSlide(box_dims)
             across == IF is_y_slide THEN 1 ELSE 2
             length == IF is_y_slide THEN box_dims[2] ELSE box_dims[1]
             groove_z_min == height - GrooveDepth
             groove_z_max == height
             entry_max == WallThickness + GrooveLength
             exit_min == length - WallThickness - GrooveLength
             entry_faces == GrooveFaces(mesh, across, 0, entry_max, groove_z_min, groove_z_max)
             exit_faces == GrooveFaces(mesh, across, exit_min, length,
                                       groove_z_min, groove_z_max)
         IN  [slide_type |-> IF is_y_slide THEN "Y-slide" ELSE "X-slide",
              entry_region |-> GrooveRegion(entry_faces, 0, entry_max),
              exit_region |-> GrooveRegion(exit_faces, exit_min, length),
              diagnosis |-> Diagnosis(Len(entry_faces), Len(exit_faces))]

\* the three analyses of one mesh, in the order main runs them
Regions_Expected ==
    /\ pc = "regions_expected"
    /\ result' = [expected |-> AnalyzeExpectedRampPositions(arg_mesh, "box", arg_dims)]
    /\ pc' = "regions_lid"
    /\ UNCHANGED <<meshes, placements, analysis_dir, ciVars, saVars, amVars, mainVars,
                   arg_mesh, arg_dims, clusters>>

Regions_Lid ==
    /\ pc = "regions_lid"
    /\ result' = result @@ [lid |-> AnalyzeLidRampPositions(arg_mesh, arg_dims)]
    /\ pc' = "regions_compare"
    /\ UNCHANGED <<meshes, placements, analysis_dir, ciVars, saVars, amVars, mainVars,
                   arg_mesh, arg_dims, clusters>>

Regions_Compare ==
    /\ pc = "regions_compare"
    /\ result' = result @@ [protrusion |-> CompareEntryVsExit(arg_mesh, "box", arg_dims)]
    /\ pc' = "regions_done"
    /\ UNCHANGED <<meshes, placements, analysis_dir, ciVars, saVars, amVars, mainVars,
                   arg_mesh, arg_dims, clusters>>

\* what detect_ramps can return for the mesh of this name, [] standing for
\* "not called"
RampsOf(ms, name) ==
    IF HasKey(ms, name) THEN DetectRampsResults(Lookup(ms, name), name) ELSE {<<>>}

\* the values ramp_analysis can take: for "box" and "lid", when present and
\* with ramps found
RampAnalyses(ms) ==
    {[n \in {m \in {"box", "lid"} : (IF m = "box" THEN box_ramps ELSE lid_ramps) # <<>>} |->
         IF n = "box" THEN box_ramps ELSE lid_ramps] :
        box_ramps \in RampsOf(ms, "box"), lid_ramps \in RampsOf(ms, "lid")}

\* expected_ramp_analysis, built only when "box" is in meshes
ExpectedRampAnalysis(ms) ==
    LET box == Lookup(ms, "box")
        forBox == [box |-> AnalyzeExpectedRampPositions(box, "box", Dims(box.bounds))]
    IN  IF HasKey(ms, "lid")
        THEN forBox @@ [lid |-> AnalyzeLidRampPositions(Lookup(ms, "lid"),
                                                        Dims(Lookup(ms, "lid").bounds))]
        ELSE forBox

\* f"Trays too ...: {measured:.1f}mm > interior {interior:.1f}mm"
FitIssue(label, measured, interior) ==
    [kind |-> label, measured |-> Round1(measured), interior |-> Round1(interior)]

\* fit.get(key) is False
IsFalse(d, key) == key \in DOMAIN d /\ d[key] = FALSE

\* FitIssues as an if/elif chain: only the first failing axis is reported
FitIssues_FirstOnly(fit) ==
    IF IsFalse(fit, "fits_width")
    THEN <<FitIssue("Trays too wide", fit.max_tray_width, fit.interior_width)>>
    ELSE IF IsFalse(fit, "fits_depth")
    THEN <<FitIssue("Trays too deep", fit.total_tray_depth, fit.interior_depth)>>
    ELSE IF IsFalse(fit, "fits_height")
    THEN <<FitIssue("Trays too tall", fit.max_tray_height, fit.interior_height)>>
    ELSE <<>>

\* the three "if fit.get(...) is False" statements
FitIssues(fit) ==
    (IF IsFalse(fit, "fits_width")
     THEN <<FitIssue("Trays too wide", fit.max_tray_width, fit.interior_width)>>
     ELSE <<>>)
    \o (IF IsFalse(fit, "fits_depth")
        THEN <<FitIssue("Trays too deep", fit.total_tray_depth, fit.interior_depth)>>
        ELSE <<>>)
    \o (IF IsFalse(fit, "fits_height")
        THEN <<FitIssue("Trays too tall", fit.max_tray_height, fit.interior_height)>>
        ELSE <<>>)

\* the calls of one function on each of these meshes
CallsOf(function, names) == {<<function, n>> : n \in names}

-----------------------------------------------------------------------------
(* main: the steps *)

\* the manifest exists, or the legacy single file does
HasInput(dir) == "stl-manifest.json" \in DOMAIN dir \/ "current.stl" \in DOMAIN dir

\* up to the batch loop: stl_files, placements, the empty report; sys.exit(1)
\* without a manifest and without current.stl
Main_Start ==
    /\ pc = "main"
    /\ IF HasInput(analysis_dir)
       THEN /\ stl_files' = IF "stl-manifest.json" \in DOMAIN analysis_dir
                            THEN analysis_dir["stl-manifest.json"]
                            ELSE <<"current.stl">>
            /\ placements' = LoadPlacements(analysis_dir)
            /\ report' = EmptyReport
            /\ meshes' = <<>>
            /\ file_idx' = 1
            /\ pc' = "load"
       ELSE /\ pc' = "exit_1"
            /\ UNCHANGED <<stl_files, placements, report, meshes, file_idx>>
    /\ UNCHANGED <<analysis_dir, ciVars, saVars, amVars, calls, geoVars>>

\* Main_File without the try/except: an exception of analyze_mesh ends the run
Main_File_Uncaught ==
    /\ pc = "load"
    /\ file_idx <= Len(stl_files)
    /\ LET stl_file == stl_files[file_idx]
           name == StripStl(stl_file)
           outcome == AnalyzeMesh(analysis_dir[stl_file])
       IN  IF stl_file \notin DOMAIN analysis_dir
           THEN UNCHANGED <<pc, meshes, report, amVars>>
           ELSE /\ stl' = analysis_dir[stl_file]
                /\ analysed' = outcome
                /\ IF outcome.raised
                   THEN pc' = "exit_1" /\ UNCHANGED <<meshes, report>>
                   ELSE /\ pc' = pc
                        /\ meshes' = MeshesPut(meshes, name, outcome.mesh)
                        /\ report' =
                             [report EXCEPT
                                !.meshes = DictPut(@, name, outcome.report),
                                !.combined_analysis.total_vertices =
                                    @ + outcome.report.stats.vertices,
                                !.combined_analysis.total_faces =
                                    @ + outcome.report.stats.faces,
                                !.combined_analysis.issues =
                                    @ \o AggregatedIssues(name, outcome.report)]
    /\ file_idx' = file_idx + 1
    /\ UNCHANGED <<stl_files, placements, analysis_dir, ciVars, saVars, calls, geoVars>>

\* Main_File keeping a failed mesh in meshes, as None
Main_File_KeepsFailed ==
    /\ pc = "load"
    /\ file_idx <= Len(stl_files)
    /\ LET stl_file == stl_files[file_idx]
           name == StripStl(stl_file)
           outcome == AnalyzeMesh(analysis_dir[stl_file])
       IN  IF stl_file \notin DOMAIN analysis_dir
           THEN UNCHANGED <<meshes, report, amVars>>
           ELSE /\ stl' = analysis_dir[stl_file]
                /\ analysed' = outcome
                /\ IF outcome.raised
                   THEN /\ report' = [report EXCEPT !.meshes =
                                         DictPut(@, stl_file, [error |-> outcome.error])]
                        /\ meshes' = MeshesPut(meshes, name, NoMesh)
                   ELSE /\ meshes' = MeshesPut(meshes, name, outcome.mesh)
                        /\ report' =
                             [report EXCEPT
                                !.meshes = DictPut(@, name, outcome.report),
                                !.combined_analysis.total_vertices =
                                    @ + outcome.report.stats.vertices,
                                !.combined_analysis.total_faces =
                                    @ + outcome.report.stats.faces,
                                !.combined_analysis.issues =
                                    @ \o AggregatedIssues(name, outcome.report)]
    /\ file_idx' = file_idx + 1
    /\ UNCHANGED <<pc, stl_files, placements, analysis_dir, ciVars, saVars, calls, geoVars>>

\* one iteration of "for stl_file in stl_files"
Main_File ==
    /\ pc = "load"
    /\ file_idx <= Len(stl_files)
    /\ LET stl_file == stl_files[file_idx]
           name == StripStl(stl_file)
           outcome == AnalyzeMesh(analysis_dir[stl_file])
       IN  IF stl_file \notin DOMAIN analysis_dir
           THEN UNCHANGED <<meshes, report, amVars>>
           ELSE /\ stl' = analysis_dir[stl_file]
                /\ analysed' = outcome
                /\ IF outcome.raised
                   THEN /\ report' = [report EXCEPT !.meshes =
                                         DictPut(@, stl_file, [error |-> outcome.error])]
                        /\ meshes' = meshes
                   ELSE /\ meshes' = MeshesPut(meshes, name, outcome.mesh)
                        /\ report' =
                             [report EXCEPT
                                !.meshes = DictPut(@, name, outcome.report),
                                !.combined_analysis.total_vertices =
                                    @ + outcome.report.stats.vertices,
                                !.combined_analysis.total_faces =
                                    @ + outcome.report.stats.faces,
                                !.combined_analysis.issues =
                                    @ \o AggregatedIssues(name, outcome.report)]
    /\ file_idx' = file_idx + 1
    /\ UNCHANGED <<pc, stl_files, placements, analysis_dir, ciVars, saVars, calls, geoVars>>

\* the loop is over: check_intersections(meshes, placements) is entered
Main_Intersections ==
    /\ pc = "load"
    /\ file_idx > Len(stl_files)
    /\ CI_Enter
    /\ calls' = calls \cup CallsOf("check_intersections", NamesOf(meshes))
    /\ pc' = "ci"
    /\ UNCHANGED <<meshes, placements, analysis_dir, saVars, amVars,
                   stl_files, file_idx, report, geoVars>>

\* issues.extend(intersection_issues)
Main_Extend ==
    /\ pc = "ci_done"
    /\ report' = [report EXCEPT !.combined_analysis.issues = @ \o issues]
    /\ pc' = "ramps"
    /\ UNCHANGED <<meshes, placements, analysis_dir, ciVars, saVars, amVars,
                   stl_files, file_idx, calls, geoVars>>

\* detect_ramps on "box" and "lid"
Main_DetectRamps ==
    /\ pc = "ramps"
    /\ \E ramp_analysis \in RampAnalyses(meshes) :
          report' = report @@ [ramp_analysis |-> ramp_analysis]
    /\ calls' = calls \cup CallsOf("detect_ramps", {"box", "lid"} \cap NamesOf(meshes))
    /\ pc' = "expected"
    /\ UNCHANGED <<meshes, placements, analysis_dir, ciVars, saVars, amVars,
                   stl_files, file_idx, geoVars>>

\* the analyses at the expected ramp positions, all under 'if "box" in meshes'
Main_Expected ==
    /\ pc = "expected"
    /\ IF HasKey(meshes, "box")
       THEN LET box == Lookup(meshes, "box")
            IN  /\ report' = report
                       @@ [expected_ramp_analysis |-> ExpectedRampAnalysis(meshes),
                           protrusion_analysis |->
                               [box |-> CompareEntryVsExit(box, "box", Dims(box.bounds))]]
                /\ calls' = calls
                       \cup {<<"analyze_expected_ramp_positions", "box">>,
                             <<"compare_entry_vs_exit", "box">>}
                       \cup CallsOf("analyze_lid_ramp_positions",
                                    {"lid"} \cap NamesOf(meshes))
       ELSE UNCHANGED <<report, calls>>
    /\ pc' = "spatial"
    /\ UNCHANGED <<meshes, placements, analysis_dir, ciVars, saVars, amVars,
                   stl_files, file_idx, geoVars>>

\* compute_spatial_analysis and the fit issues
Main_Spatial ==
    /\ pc = "spatial"
    /\ spatial' = ComputeSpatialAnalysis(meshes, placements, analysis_dir)
    /\ report' = [report @@ [spatial_layout |-> spatial']
                    EXCEPT !.combined_analysis.issues =
                               @ \o FitIssues(DictGet(spatial', "fit_check", EmptyDict))]
    /\ calls' = calls \cup CallsOf("compute_spatial_analysis", NamesOf(meshes))
    /\ pc' = "write"
    /\ UNCHANGED <<meshes, placements, analysis_dir, ciVars, amVars, stl_files, file_idx, geoVars>>

\* json.dump(report) to report.json
Main_Write ==
    /\ pc = "write"
    /\ analysis_dir' = DictPut(analysis_dir, "report.json", report)
    /\ pc' = "render"
    /\ UNCHANGED <<meshes, placements, ciVars, saVars, amVars, mainVars, geoVars>>

\* render_mesh of every mesh to view-<name>.png
Main_Render ==
    /\ pc = "render"
    /\ LET views == {ViewFile(n) : n \in NamesOf(meshes)}
       IN  analysis_dir' = [f \in DOMAIN analysis_dir \cup views |->
                               IF f \in views THEN "png" ELSE analysis_dir[f]]
    /\ calls' = calls \cup CallsOf("render_mesh", NamesOf(meshes))
    /\ pc' = "done"
    /\ UNCHANGED <<meshes, placements, ciVars, saVars, amVars, stl_files, file_idx, report, geoVars>>

-----------------------------------------------------------------------------
(* main: the analysis directories it is run on *)

MaxFiles == 2              \* files named by the manifest

FileNames == {"box.stl", "lid.stl", "tray_A_a.stl", "tray_B_b.stl"}

\* a box of 106 x 156 x 42: interior 100 x 150 x 40 with the default walls
MainBox == Box3(0, 106000, 0, 156000, 0, 42000)
MainLid == Box3(0, 106000, 0, 156000, 40000, 44000)
TrayFit == Box3(0, 95000, 0, 140000, 0, 35000)
TrayWide == Box3(0, 100101, 0, 140000, 0, 35000)
TrayDeep == Box3(0, 95000, 0, 150200, 0, 35000)
TrayTall == Box3(0, 95000, 0, 140000, 0, 40200)
TrayWideTall == Box3(0, 100200, 0, 140000, 0, 40101)
TrayHuge == Box3(0, 107000, 0, 157000, 0, 43000)

\* not watertight, otherwise sound
Open(bounds) == Mesh(bounds, 8, FALSE, TRUE, <<Area(1000, 0), Area(1000, 0)>>)
\* not watertight, inconsistent winding, one face of zero area
Broken(bounds) == Mesh(bounds, 8, FALSE, FALSE, <<Area(0, 0), Area(1000, 0)>>)
\* watertight, but with inconsistent winding and one face of zero area
Flawed(bounds) == Mesh(bounds, 8, TRUE, FALSE, <<Area(0, 0), Area(1000, 0)>>)

\* the same mesh with a ramp at its low corner: three more faces of area 1,
\* tilted between X and Z, 1 mm apart
WithRamp(mesh) ==
    LET at == mesh.bounds[1]
    IN  [mesh EXCEPT
            !.vertices = @ + 9,
            !.area_faces = @ \o <<Area(1000, 0), Area(1000, 0), Area(1000, 0)>>,
            !.face_normals = @ \o <<<<600, 0, 800>>, <<600, 0, 800>>, <<600, 0, 800>>>>,
            !.triangles_center = @ \o <<at, <<at[1] + 1000, at[2], at[3]>>,
                                        <<at[1] + 2000, at[2], at[3]>>>>]

\* what can be found under each file name; Missing: no such file
Missing == [kind |-> "missing"]

ContentsOf(stl_file) ==
    CASE stl_file = "box.stl" ->
            {Missing, Unreadable("cannot read file"), Single(Solid(MainBox)),
             Single(Open(MainBox)), Single(Broken(MainBox)),
             Single(WithRamp(Open(MainBox)))}
      [] stl_file = "lid.stl" ->
            {Missing, Single(EmptyMesh), Single(Solid(MainLid)),
             Single(WithRamp(Broken(MainLid)))}
      [] stl_file = "tray_A_a.stl" ->
            {Missing, Scene(<<>>), Single(Solid(TrayFit)), Single(Open(TrayFit)),
             Single(Flawed(TrayFit)), Single(Solid(TrayWide)), Single(Solid(TrayDeep)),
             Single(Open(TrayTall)), Single(Solid(TrayWideTall)), Single(Broken(TrayHuge))}
      [] stl_file = "tray_B_b.stl" ->
            {Missing, Single(Solid(TrayFit)), Single(Open(TrayWide)), Single(Solid(TrayTall))}
      [] OTHER -> {Missing, Unreadable("cannot read file"), Single(Open(TrayFit))}

\* the directories holding, for each of these names, one of its contents
RECURSIVE DirsWith(_)
DirsWith(names) ==
    IF names = {} THEN {EmptyDict}
    ELSE LET f == CHOOSE x \in names : TRUE
         IN  {IF c = Missing THEN d ELSE DictPut(d, f, c) :
                 d \in DirsWith(names \ {f}), c \in ContentsOf(f)}

Manifests == UNION {DistinctSeqs(FileNames, n) : n \in 0..MaxFiles}

\* context.json and project.json: absent, or a context placing the trays and
\* naming a box of the project with walls of 2 and a floor of 1
MainContext ==
    [box_id |-> "b1",
     trays |-> <<[letter |-> "A", name |-> "a", placement |-> [x |-> 3000, y |-> 3000]],
                 [letter |-> "B", name |-> "b"]>>]
MainProject ==
    [boxes |-> <<[id |-> "b0"], [id |-> "b1", wallThickness |-> 2000, floorThickness |-> 1000]>>]

ConfigFiles ==
    {EmptyDict, ("context.json" :> MainContext) @@ ("project.json" :> MainProject)}

\* with a manifest; or without one, with or without current.stl
MainDirs ==
    UNION {{d @@ ("stl-manifest.json" :> m) @@ c :
               d \in DirsWith(Range(m)), c \in ConfigFiles} : m \in Manifests}
    \cup {d @@ c : d \in DirsWith({"current.stl"}), c \in ConfigFiles}

-----------------------------------------------------------------------------
(* main *)

Init ==
    /\ pc = "main"
    /\ analysis_dir \in MainDirs
    /\ stl_files = <<>>
    /\ file_idx = 1
    /\ report = EmptyDict
    /\ calls = {}
    /\ arg_mesh = NoMesh
    /\ arg_dims = NoneList
    /\ clusters = <<>>
    /\ result = <<>>
    /\ meshes = <<>>
    /\ placements = EmptyDict
    /\ i = 1
    /\ j = 2
    /\ name1 = ""
    /\ name2 = ""
    /\ overlap = FALSE
    /\ issues = <<>>
    /\ spatial = EmptyDict
    /\ stl = NoFile
    /\ analysed = NotRun

Next ==
    \/ Main_Start
    \/ Main_File
    \/ Main_Intersections
    \/ CI_Pair
    \/ CI_Return
    \/ Main_Extend
    \/ Main_DetectRamps
    \/ Main_Expected
    \/ Main_Spatial
    \/ Main_Write
    \/ Main_Render

Spec == Init /\ [][Next]_vars

-----------------------------------------------------------------------------
(* Properties of main *)

\* main has built its report (every control point but the entry and the exit
\* for want of files)
Reporting == pc \notin {"main", "exit_1"}

\* the fit issues have been added
FitReported == pc \in {"write", "render", "done"}

CombinedIssues == report.combined_analysis.issues

HasIssue(x) == \E n \in DOMAIN CombinedIssues : CombinedIssues[n] = x

\* how many combined issues carry this label
IssuesOfKind(label) ==
    Cardinality({n \in DOMAIN CombinedIssues : CombinedIssues[n].kind = label})

FitFlags == {"fits_width", "fits_depth", "fits_height"}

FitLabel(flag) ==
    CASE flag = "fits_width" -> "Trays too wide"
      [] flag = "fits_depth" -> "Trays too deep"
      [] OTHER -> "Trays too tall"

ReportedFit == report.spatial_layout.fit_check

\* the defect of one axis, with the offending measurements
FitDefect(flag) ==
    CASE flag = "fits_width" ->
            FitIssue("Trays too wide", ReportedFit.max_tray_width, ReportedFit.interior_width)
      [] flag = "fits_depth" ->
            FitIssue("Trays too deep", ReportedFit.total_tray_depth, ReportedFit.interior_depth)
      [] OTHER ->
            FitIssue("Trays too tall", ReportedFit.max_tray_height, ReportedFit.interior_height)

\* C8: once main has added the fit issues, for each axis by itself the
\* combined issues hold the defect labelled with that axis (exactly once, with
\* that axis's measurements) iff the fit check carries that axis's flag and
\* the flag is false, whatever the other two flags are; before that step no
\* such defect is in the list.
C8_FitDefectPerAxis ==
    /\ FitReported =>
          \A flag \in FitFlags :
              IF IsFalse(ReportedFit, flag)
              THEN IssuesOfKind(FitLabel(flag)) = 1 /\ HasIssue(FitDefect(flag))
              ELSE IssuesOfKind(FitLabel(flag)) = 0
    /\ (Reporting /\ ~FitReported) =>
          \A flag \in FitFlags : IssuesOfKind(FitLabel(flag)) = 0

\* main has finished with width and height failing while depth fits: the wide
\* and the tall defect are reported, the deep one is not
C8_Witness ==
    /\ pc = "done"
    /\ IsFalse(ReportedFit, "fits_width")
    /\ "fits_depth" \in DOMAIN ReportedFit /\ ReportedFit.fits_depth
    /\ IsFalse(ReportedFit, "fits_height")
    /\ IssuesOfKind("Trays too wide") = 1
    /\ IssuesOfKind("Trays too deep") = 0
    /\ IssuesOfKind("Trays too tall") = 1

\* the meshes that were analysed successfully
Loaded == NamesOf(meshes)

IsWatertightIssue(issue) == "msg" \in DOMAIN issue /\ issue.msg = WatertightWarning

\* the downstream analyses a loaded mesh of this name goes through: the
\* intersection check and the fit computation for every mesh, ramp detection
\* for the box and the lid, the region analyses for the box and, in a batch
\* whose box loaded, for the lid
Downstream(name) ==
    {<<"check_intersections", name>>, <<"compute_spatial_analysis", name>>}
    \cup (IF name \in {"box", "lid"} THEN {<<"detect_ramps", name>>} ELSE {})
    \cup (IF name = "box"
          THEN {<<"analyze_expected_ramp_positions", "box">>, <<"compare_entry_vs_exit", "box">>}
          ELSE {})
    \cup (IF name = "lid" /\ "box" \in Loaded
          THEN {<<"analyze_lid_ramp_positions", "lid">>} ELSE {})

\* what the report shows of those analyses for this mesh
InReport(name) ==
    /\ ContainsTray(Lower(name)) =>
          \E n \in DOMAIN report.spatial_layout.trays :
              report.spatial_layout.trays[n].name = name
    /\ name = "box" =>
          /\ report.spatial_layout.box_exterior_mm = Dims(Lookup(meshes, "box").bounds)
          /\ "box" \in DOMAIN report.expected_ramp_analysis
          /\ "box" \in DOMAIN report.protrusion_analysis
    /\ (name = "lid" /\ "box" \in Loaded) => "lid" \in DOMAIN report.expected_ramp_analysis
    /\ (name \in {"box", "lid"} /\ <<>> \notin RampsOf(meshes, name)) =>
          name \in DOMAIN report.ramp_analysis

\* C10: the watertight warning of a mesh is in that mesh's own warnings and
\* never among the combined issues, while its winding warning and its
\* degenerate-face error are copied there; and when main is done, every mesh
\* that is not watertight has gone through the downstream analyses of a mesh
\* of its name, with their results in the report.
C10_WatertightAdvisory ==
    /\ Reporting =>
          /\ \A n \in DOMAIN CombinedIssues : ~IsWatertightIssue(CombinedIssues[n])
          /\ \A n \in DOMAIN meshes :
                LET name == meshes[n].name
                    mesh == meshes[n].mesh
                    own == report.meshes[name]
                IN  /\ (~mesh.is_watertight) <=>
                           (\E w \in DOMAIN own.warnings : own.warnings[w] = WatertightWarning)
                    /\ (~mesh.is_winding_consistent) <=>
                           HasIssue(MeshIssue(name, WindingWarning))
                    /\ DegenerateCount(mesh.area_faces) > 0 <=>
                           HasIssue(MeshIssue(name,
                                        DegenerateError(DegenerateCount(mesh.area_faces))))
    /\ pc = "done" =>
          \A n \in DOMAIN meshes :
              ~meshes[n].mesh.is_watertight =>
                  /\ Downstream(meshes[n].name) \subseteq calls
                  /\ InReport(meshes[n].name)

\* main is done with a box and a lid that are both not watertight, wound
\* inconsistently and with a degenerate face: only the latter two findings
\* are among the combined issues, and both meshes went through every analysis
C10_Witness ==
    /\ pc = "done"
    /\ Loaded = {"box", "lid"}
    /\ \A n \in DOMAIN meshes :
          /\ ~meshes[n].mesh.is_watertight
          /\ HasIssue(MeshIssue(meshes[n].name, WindingWarning))
          /\ HasIssue(MeshIssue(meshes[n].name, DegenerateError(1)))
          /\ WatertightWarning \in Range(report.meshes[meshes[n].name].warnings)
    /\ <<"analyze_lid_ramp_positions", "lid">> \in calls
    /\ <<"compare_entry_vs_exit", "box">> \in calls
    /\ "lid" \in DOMAIN report.ramp_analysis

\* Batches in which files fail in each of the three ways: a mesh without
\* faces, a scene without geometries, a file that cannot be read
BatchContentsOf(stl_file) ==
    CASE stl_file = "box.stl" ->
            {Missing, Unreadable("cannot read file"), Single(EmptyMesh), Scene(<<>>),
             Single(Solid(MainBox))}
      [] stl_file = "lid.stl" -> {Single(EmptyMesh), Single(Open(MainLid))}
      [] stl_file = "tray_A_a.stl" -> {Missing, Scene(<<>>), Single(Solid(TrayFit))}
      [] OTHER -> {Unreadable("cannot read file"), Single(Broken(TrayWide))}

RECURSIVE BatchDirsWith(_)
BatchDirsWith(names) ==
    IF names = {} THEN {EmptyDict}
    ELSE LET f == CHOOSE x \in names : TRUE
         IN  {IF c = Missing THEN d ELSE DictPut(d, f, c) :
                 d \in BatchDirsWith(names \ {f}), c \in BatchContentsOf(f)}

BatchDirs ==
    UNION {{d @@ ("stl-manifest.json" :> m) : d \in BatchDirsWith(Range(m))} : m \in Manifests}

InitBatch ==
    /\ pc = "main"
    /\ analysis_dir \in BatchDirs
    /\ stl_files = <<>>
    /\ file_idx = 1
    /\ report = EmptyDict
    /\ calls = {}
    /\ arg_mesh = NoMesh
    /\ arg_dims = NoneList
    /\ clusters = <<>>
    /\ result = <<>>
    /\ meshes = <<>>
    /\ placements = EmptyDict
    /\ i = 1
    /\ j = 2
    /\ name1 = ""
    /\ name2 = ""
    /\ overlap = FALSE
    /\ issues = <<>>
    /\ spatial = EmptyDict
    /\ stl = NoFile
    /\ analysed = NotRun

\* main is sequential code whose every step terminates
SpecBatch == InitBatch /\ [][Next]_vars /\ WF_vars(Next)

\* the positions of stl_files the batch loop has been through
Processed ==
    IF pc = "load" THEN 1..(file_idx - 1)
    ELSE IF Reporting THEN DOMAIN stl_files
    ELSE {}

\* the files of the manifest found in the directory (report.json and the
\* views main writes there are not STL files of the batch)
Found(stl_file) == stl_file \in DOMAIN analysis_dir

\* the names under which some function was called
Called == {c[2] : c \in calls}

\* the record of a mesh that failed, and of one that was analysed
FailedRecord(stl_file) ==
    /\ stl_file \in DOMAIN report.meshes
    /\ report.meshes[stl_file] = [error |-> AnalyzeMesh(analysis_dir[stl_file]).error]

AnalysedRecord(stl_file) ==
    LET name == StripStl(stl_file)
        mesh == Lookup(meshes, name)
    IN  /\ name \in DOMAIN report.meshes
        /\ HasKey(meshes, name)
        /\ DOMAIN report.meshes[name] = {"stats", "validation", "errors", "warnings"}
        /\ report.meshes[name].stats.vertices = mesh.vertices
        /\ report.meshes[name].stats.faces = Len(mesh.area_faces)
        /\ report.meshes[name].stats.bounding_box.dimensions = Dims(mesh.bounds)
        /\ report.meshes[name].validation.is_watertight = mesh.is_watertight
        /\ report.meshes[name].errors = MeshErrors(mesh)
        /\ report.meshes[name].warnings = MeshWarnings(mesh)

\* what the loop leaves for the files it has been through
PartialFailure ==
    \A n \in Processed :
        LET stl_file == stl_files[n]
        IN  Found(stl_file) =>
               IF AnalyzeMesh(analysis_dir[stl_file]).raised
               THEN /\ FailedRecord(stl_file)
                    /\ ~HasKey(meshes, StripStl(stl_file))
                    /\ {stl_file, StripStl(stl_file)} \cap Called = {}
               ELSE AnalysedRecord(stl_file)

\* C11: a mesh whose analysis raises gets an error record and is kept out of
\* meshes and of every downstream call, every other file found in the batch,
\* before or after it, has its full analysis record, and once a mesh has
\* raised the run goes on to write report.json.
C11_OnlyTheFailedMeshAborts ==
    /\ []PartialFailure
    /\ analysed.raised ~> ("report.json" \in DOMAIN analysis_dir)

\* main is done, the first file of the manifest raised and the second was
\* analysed, or the other way round
C11_Witness ==
    /\ pc = "done"
    /\ Len(stl_files) = 2
    /\ Found(stl_files[1]) /\ Found(stl_files[2])
    /\ AnalyzeMesh(analysis_dir[stl_files[1]]).raised
    /\ ~AnalyzeMesh(analysis_dir[stl_files[2]]).raised
    /\ FailedRecord(stl_files[1])
    /\ AnalysedRecord(stl_files[2])
    /\ <<"check_intersections", StripStl(stl_files[2])>> \in calls
    /\ "report.json" \in DOMAIN analysis_dir

\* the first good, the second failing
C11_WitnessAfter ==
    /\ pc = "done"
    /\ Len(stl_files) = 2
    /\ Found(stl_files[1]) /\ Found(stl_files[2])
    /\ ~AnalyzeMesh(analysis_dir[stl_files[1]]).raised
    /\ AnalyzeMesh(analysis_dir[stl_files[2]]).raised
    /\ AnalysedRecord(stl_files[1])
    /\ FailedRecord(stl_files[2])

\* the file names of the batch that have a record, under the file's name or
\* under the mesh's
HasRecord(stl_file) ==
    stl_file \in DOMAIN report.meshes \/ StripStl(stl_file) \in DOMAIN report.meshes

\* C12: when main is done, every file named by the manifest has a record in
\* report.meshes, an analysis record or one carrying an error message.
C12_EveryListedHasRecord ==
    pc = "done" => \A n \in DOMAIN stl_files : HasRecord(stl_files[n])

\* what the code does: a record for every listed file that exists, none for
\* a listed file that does not
C12_RecordIffFound ==
    pc = "done" => \A n \in DOMAIN stl_files : HasRecord(stl_files[n]) <=> Found(stl_files[n])

-----------------------------------------------------------------------------
(* detect_ramps on its own *)

MaxClusterFaces == 3       \* faces of the group of faces laid out in a row

\* a mesh of 40 x 30 x 10
RampBounds == Box3(0, 40000, 0, 30000, 0, 10000)

\* face normals: tilted towards X, -X, -Y, X and Y alike, mostly Z; at and
\* just inside the 0.95 limit; flat; the zero normal of a degenerate face
TiltX == <<800, 0, 600>>
TiltNegX == <<-800, 100, 592>>
TiltNegY == <<0, -800, 600>>
TiltXY == <<600, 600, 529>>
TiltZ == <<600, 0, 800>>
TiltZLow == <<200, 300, 933>>
AtLimit == <<950, 312, 0>>
InsideLimit == <<949, 315, 0>>
FlatZ == <<0, 0, 1000>>
ZeroNormal == <<0, 0, 0>>

\* the normals of the odd and of the even faces of the row
NormalPairs ==
    {<<n, n>> : n \in {TiltX, TiltNegX, TiltNegY, TiltXY, TiltZ, TiltZLow, AtLimit,
                       InsideLimit, FlatZ, ZeroNormal}}
    \cup {<<TiltX, FlatZ>>, <<TiltX, TiltNegY>>, <<TiltX, <<-800, 0, 600>>>>,
          <<TiltNegY, TiltZ>>}

\* the total area of the row: 0.5, just under 1, 1, 10, 50, just over 50
RowAreas ==
    {Area(500, 0), Area(999, 999999999), Area(1000, 0), Area(10000, 0),
     Area(50000, 0), Area(50000, 1)}

\* the step from one centroid of the row to the next: 1 apart; 3 apart along
\* X; 3 apart obliquely (1.8, 2.4); and the same with the first step just
\* over 3 and the others 1
Layouts == {"tight", "chain", "oblique", "split", "oblique split"}

Step(layout, n) ==
    CASE layout = "tight" -> <<1000, 0, 0>>
      [] layout = "chain" -> <<3000, 0, 0>>
      [] layout = "oblique" -> <<1800, 2400, 0>>
      [] layout = "split" -> IF n = 1 THEN <<3001, 0, 0>> ELSE <<1000, 0, 0>>
      [] OTHER -> IF n = 1 THEN <<1800, 2401, 0>> ELSE <<1000, 0, 0>>

\* the centroid of the n-th face of a row starting at base
RECURSIVE RowCenter(_, _, _)
RowCenter(base, layout, n) ==
    IF n = 1 THEN base
    ELSE LET c == RowCenter(base, layout, n - 1)
             d == Step(layout, n - 1)
         IN  <<c[1] + d[1], c[2] + d[2], c[3] + d[3]>>

\* where the row starts
RowBases ==
    {<<1000, 1000, 1000>>, <<7000, 6000, 3000>>, <<19000, 15000, 5000>>,
     <<31000, 24000, 7000>>, <<30000, 22000, 9000>>}

\* a row of count faces: the first has the area the others (0.1 each) leave
\* of the total
Row(count, normals, total, layout, base) ==
    [normals |-> [n \in 1..count |-> normals[2 - (n % 2)]],
     centers |-> [n \in 1..count |-> RowCenter(base, layout, n)],
     areas |-> [n \in 1..count |->
                   IF n = 1 THEN Area(total.milli - 100 * (count - 1), total.pico)
                   ELSE Area(100, 0)]]

\* further faces: none, one tilted face far from the row, or a ramp of three
\* tilted faces at the high corner
NoFaces == [normals |-> <<>>, centers |-> <<>>, areas |-> <<>>]
FarFace ==
    [normals |-> <<TiltNegY>>, centers |-> <<<<20000, 29000, 2000>>>>,
     areas |-> <<Area(2000, 0)>>]
FarRamp ==
    [normals |-> <<TiltNegY, TiltNegY, TiltXY>>,
     centers |-> <<<<39000, 29000, 8000>>, <<39000, 28000, 8000>>, <<39000, 28500, 9000>>>>,
     areas |-> <<Area(1000, 0), Area(1000, 0), Area(1000, 0)>>]

RampMesh(row, more) ==
    WithFaces(Mesh(RampBounds, 3 * (Len(row.areas) + Len(more.areas)), FALSE, TRUE,
                   row.areas \o more.areas),
              row.normals \o more.normals, row.centers \o more.centers)

\* rows of every size, tilt and area, tight or split, at the low corner; rows
\* of tilted faces of total area 10 in every layout and at every base
RampMeshes ==
    {RampMesh(Row(count, normals, total, layout, <<1000, 1000, 1000>>), more) :
        count \in 0..MaxClusterFaces, normals \in NormalPairs, total \in RowAreas,
        layout \in {"tight", "split"}, more \in {NoFaces, FarFace}}
    \cup {RampMesh(Row(count, <<TiltX, TiltX>>, Area(10000, 0), layout, base), more) :
             count \in 0..MaxClusterFaces, layout \in Layouts, base \in RowBases,
             more \in {NoFaces, FarFace, FarRamp}}

InitDR ==
    /\ pc = "dr"
    /\ arg_mesh \in RampMeshes \cup {NoMesh}
    /\ arg_dims = NoneList
    /\ clusters = <<>>
    /\ result = <<>>
    /\ stl_files = <<>>
    /\ file_idx = 1
    /\ report = EmptyDict
    /\ calls = {}
    /\ meshes = <<>>
    /\ placements = EmptyDict
    /\ analysis_dir = EmptyDict
    /\ i = 1
    /\ j = 2
    /\ name1 = ""
    /\ name2 = ""
    /\ overlap = FALSE
    /\ issues = <<>>
    /\ spatial = EmptyDict
    /\ stl = NoFile
    /\ analysed = NotRun

NextDR == DR_Detect

SpecDR == InitDR /\ [][NextDR]_vars

-----------------------------------------------------------------------------
(* Properties of detect_ramps *)

Detected == pc = "dr_done"

\* the faces of the mesh whose normal has at least two components above 0.2
\* in absolute value and none at or above 0.95
TiltedFaces ==
    IF arg_mesh = NoMesh THEN {}
    ELSE {n \in DOMAIN arg_mesh.face_normals :
             LET v == arg_mesh.face_normals[n]
             IN  /\ \E a, b \in 1..3 : a # b /\ Abs(v[a]) > 200 /\ Abs(v[b]) > 200
                 /\ \A a \in 1..3 : Abs(v[a]) < 950}

\* the faces detect_ramps took for diagonal
DiagonalIndices ==
    IF arg_mesh = NoMesh THEN {}
    ELSE {DiagonalFaces(arg_mesh)[n].index : n \in DOMAIN DiagonalFaces(arg_mesh)}

\* C13: the faces detect_ramps treats as diagonal are exactly those with at
\* least two absolute normal components above 0.2 and the largest below 0.95
\* (clustering labels one face each, when it is reached), and for an absent
\* mesh or fewer than 2 such faces the function returns the empty list
\* without clustering.
C13_DiagonalAndEarlyReturn ==
    Detected =>
        /\ DiagonalIndices = TiltedFaces
        /\ Cardinality(TiltedFaces) >= 2 => Len(clusters) = Cardinality(TiltedFaces)
        /\ (arg_mesh = NoMesh \/ Cardinality(TiltedFaces) < 2) =>
               result = <<>> /\ clusters = <<>>

\* a mesh of several faces of which exactly one is diagonal: nothing returned
C13_Witness ==
    /\ Detected
    /\ arg_mesh # NoMesh
    /\ Len(arg_mesh.face_normals) >= 3
    /\ Cardinality(TiltedFaces) = 1
    /\ result = <<>>

\* an absent mesh, and a mesh with faces none of which is diagonal
C13_WitnessAbsent == Detected /\ arg_mesh = NoMesh /\ result = <<>>
C13_WitnessNone ==
    /\ Detected
    /\ arg_mesh # NoMesh
    /\ Len(arg_mesh.face_normals) >= 2
    /\ TiltedFaces = {}
    /\ result = <<>>

\* the diagonal faces (positions in diagonal_faces) that fclusterdata labelled id
Members(id) == {n \in DOMAIN clusters : clusters[n] = id}

Labels == {clusters[n] : n \in DOMAIN clusters}

\* the face of the mesh behind the n-th diagonal face
FaceOf(n) == DiagonalFaces(arg_mesh)[n].index

\* the summed area of a set of diagonal faces, as whole thousandths and the
\* rest in units of 1e-12
RECURSIVE SumMilli(_)
SumMilli(S) ==
    IF S = {} THEN 0
    ELSE LET n == CHOOSE x \in S : TRUE
         IN  arg_mesh.area_faces[FaceOf(n)].milli + SumMilli(S \ {n})

RECURSIVE SumPico(_)
SumPico(S) ==
    IF S = {} THEN 0
    ELSE LET n == CHOOSE x \in S : TRUE
         IN  arg_mesh.area_faces[FaceOf(n)].pico + SumPico(S \ {n})

\* 1.0 <= the summed area <= 50.0
AreaInRange(S) ==
    LET milli == SumMilli(S) + (SumPico(S) \div 1000000000)
        pico == SumPico(S) % 1000000000
    IN  milli >= 1000 /\ (milli < 50000 \/ (milli = 50000 /\ pico = 0))

Qualifies(id) == Cardinality(Members(id)) >= 3 /\ AreaInRange(Members(id))

ReturnedIds == {result[n].cluster_id : n \in DOMAIN result}

\* C14: the clusters detect_ramps returns are exactly the clusters of
\* diagonal faces with at least 3 faces and a total area from 1.0 to 50.0,
\* both ends included, each returned once with its face count; so 2 faces
\* near each other of total area 10 give an empty list, and a cluster of 3 or
\* more faces of total area 0.5 is not returned.
C14_ClustersKept ==
    Detected =>
        /\ ReturnedIds = {id \in Labels : Qualifies(id)}
        /\ Len(result) = Cardinality(ReturnedIds)
        /\ \A n \in DOMAIN result :
              /\ result[n].face_count = Cardinality(Members(result[n].cluster_id))
              /\ result[n].face_count >= 3
              /\ result[n].total_area_mm2 >= 1000 /\ result[n].total_area_mm2 <= 50000
        /\ (Len(clusters) = 2 /\ Labels = {1} /\ SumMilli({1, 2}) = 10000) => result = <<>>
        /\ \A id \in Labels :
              (Cardinality(Members(id)) >= 3 /\ SumMilli(Members(id)) = 500
                 /\ SumPico(Members(id)) = 0) => id \notin ReturnedIds

\* a cluster of exactly 3 faces and of total area exactly 50.0 is returned,
\* next to a cluster of one face that is not
C14_Witness ==
    /\ Detected
    /\ Len(result) = 1
    /\ result[1].face_count = 3
    /\ SumMilli(Members(result[1].cluster_id)) = 50000
    /\ SumPico(Members(result[1].cluster_id)) = 0
    /\ Cardinality(Labels) = 2

\* total area exactly 1.0 returned; two clusters returned; 2 faces of area 10
\* and 3 faces of area 0.5 not returned
C14_WitnessLow ==
    Detected /\ Len(result) = 1 /\ SumMilli(Members(result[1].cluster_id)) = 1000
             /\ SumPico(Members(result[1].cluster_id)) = 0
C14_WitnessTwo == Detected /\ Len(result) = 2
C14_WitnessPair ==
    Detected /\ Len(clusters) = 2 /\ Labels = {1} /\ SumMilli({1, 2}) = 10000 /\ result = <<>>
C14_WitnessSmall ==
    /\ Detected
    /\ \E id \in Labels : Cardinality(Members(id)) >= 3 /\ SumMilli(Members(id)) = 500
    /\ result = <<>>

\* the sum of the normals of the faces of a returned cluster: the average
\* normal times a positive number
RECURSIVE SumNormal(_, _)
SumNormal(S, a) ==
    IF S = {} THEN 0
    ELSE LET n == CHOOSE x \in S : TRUE
         IN  arg_mesh.face_normals[FaceOf(n)][a] + SumNormal(S \ {n}, a)

AvgOf(ramp) == [a \in 1..3 |-> SumNormal(Members(ramp.cluster_id), a)]

\* C15: every returned cluster has as protrusion direction the X axis when
\* |avg_x| >= |avg_y| and the Y axis otherwise, with the sign of that
\* component of the average normal; never Z.
C15_DirectionXOrY ==
    Detected =>
        \A n \in DOMAIN result :
            LET avg == AvgOf(result[n])
            IN  result[n].protrusion_direction =
                   (IF Abs(avg[1]) >= Abs(avg[2])
                    THEN (IF avg[1] >= 0 THEN "+X" ELSE "-X")
                    ELSE (IF avg[2] >= 0 THEN "+Y" ELSE "-Y"))

\* what the code computes: X or Y only when that component is strictly the
\* largest of the three in absolute value, "unknown" otherwise; never Z
C15_DirectionStrictlyLargest ==
    Detected =>
        \A n \in DOMAIN result :
            LET avg == AvgOf(result[n])
                dir == result[n].protrusion_direction
            IN  /\ dir \in {"+X", "-X", "+Y", "-Y", "unknown"}
                /\ dir = "+X" <=>
                      (avg[1] > 0 /\ Abs(avg[1]) > Abs(avg[2]) /\ Abs(avg[1]) > Abs(avg[3]))
                /\ dir = "-X" <=>
                      (avg[1] < 0 /\ Abs(avg[1]) > Abs(avg[2]) /\ Abs(avg[1]) > Abs(avg[3]))
                /\ dir = "+Y" <=>
                      (avg[2] > 0 /\ Abs(avg[2]) > Abs(avg[1]) /\ Abs(avg[2]) > Abs(avg[3]))
                /\ dir = "-Y" <=>
                      (avg[2] < 0 /\ Abs(avg[2]) > Abs(avg[1]) /\ Abs(avg[2]) > Abs(avg[3]))

\* a returned cluster whose average normal has equal X and Y components is
\* given no axis
C15_TieIsUnknown ==
    /\ Detected
    /\ \E n \in DOMAIN result :
          /\ Abs(AvgOf(result[n])[1]) = Abs(AvgOf(result[n])[2])
          /\ Abs(AvgOf(result[n])[1]) > Abs(AvgOf(result[n])[3])
          /\ result[n].protrusion_direction = "unknown"

\* the centroid of the n-th diagonal face
CenterOf(n) == arg_mesh.triangles_center[FaceOf(n)]

\* two diagonal faces whose centroids are at Euclidean distance at most 3.0
\* (a difference above 3 on one axis settles it)
Near(a, b) ==
    LET d == [x \in 1..3 |-> CenterOf(a)[x] - CenterOf(b)[x]]
    IN  /\ \A x \in 1..3 : d[x] <= 3000 /\ d[x] >= -3000
        /\ d[1] * d[1] + d[2] * d[2] + d[3] * d[3] <= 9000000

\* every way of cutting S in two leaves two near faces on either side: any
\* two faces of S are joined by a chain of near faces of S
Chained(S) ==
    \A T \in SUBSET S : (T # {} /\ T # S) => \E a \in T, b \in S \ T : Near(a, b)

\* C19: the labels of the diagonal faces are those of single linkage with
\* cutoff 3.0: near faces share a label, and the faces of one label are
\* chained by near faces; so two faces have the same label iff a chain of
\* faces, consecutive ones at most 3.0 apart, joins them, and a face more
\* than 3.0 from every face of a cluster is not in it.
C19_SingleLinkage ==
    Detected =>
        /\ \A a, b \in DOMAIN clusters : Near(a, b) => clusters[a] = clusters[b]
        /\ \A id \in Labels : Chained(Members(id))
        /\ \A id \in Labels : \A b \in DOMAIN clusters :
              (\A a \in Members(id) \ {b} : ~Near(a, b)) =>
                  (b \notin Members(id) \/ Members(id) = {b})
        /\ Labels = 1..Cardinality(Labels)

\* three faces in one cluster although the first and the last are 6.0 apart,
\* each exactly 3.0 from the middle one
C19_Witness ==
    /\ Detected
    /\ \E id \in Labels : \E a, b, c \in Members(id) :
          /\ Near(a, b) /\ Near(b, c) /\ ~Near(a, c)
          /\ Abs(CenterOf(a)[1] - CenterOf(b)[1]) = 3000
          /\ CenterOf(a)[2] = CenterOf(b)[2]

\* two faces 3.001 apart, and 3.0004 apart obliquely, in different clusters
C19_WitnessApart ==
    /\ Detected
    /\ \E a, b \in DOMAIN clusters :
          clusters[a] # clusters[b] /\ CenterOf(a)[1] - CenterOf(b)[1] = 3001
             /\ CenterOf(a)[2] = CenterOf(b)[2]
C19_WitnessOblique ==
    /\ Detected
    /\ \E a, b \in DOMAIN clusters :
          clusters[a] = clusters[b] /\ CenterOf(a)[1] - CenterOf(b)[1] = 1800
             /\ CenterOf(a)[2] - CenterOf(b)[2] = 2400
             /\ Cardinality(Members(clusters[a])) = 2

\* the least and the greatest centroid coordinate of a set of diagonal faces
LeastOf(S, a) == CHOOSE v \in {CenterOf(n)[a] : n \in S} : \A n \in S : v <= CenterOf(n)[a]
GreatestOf(S, a) == CHOOSE v \in {CenterOf(n)[a] : n \in S} : \A n \in S : v >= CenterOf(n)[a]

\* the relative position of a returned cluster on an axis is below, at most,
\* above num/10 of the extent of the mesh: the centre of the cluster is the
\* middle of the least and the greatest centroid, so relative position
\* = (least + greatest - 2 * low) / (2 * extent)
RelBelow(ramp, a, num) ==
    LET S == Members(ramp.cluster_id)
    IN  10 * (LeastOf(S, a) + GreatestOf(S, a) - 2 * arg_mesh.bounds[1][a])
           < 2 * num * (arg_mesh.bounds[2][a] - arg_mesh.bounds[1][a])

RelAbove(ramp, a, num) ==
    LET S == Members(ramp.cluster_id)
    IN  10 * (LeastOf(S, a) + GreatestOf(S, a) - 2 * arg_mesh.bounds[1][a])
           > 2 * num * (arg_mesh.bounds[2][a] - arg_mesh.bounds[1][a])

\* the tags of a description that speak of one axis
LowTag == <<"left (low X)", "front (low Y, entry)", "bottom">>
HighTag == <<"right (high X)", "back (high Y, exit)", "top">>
MidTag == <<"mid X", "mid Y", "mid Z">>

TagsOn(ramp, a) ==
    {n \in DOMAIN ramp.position_description :
        ramp.position_description[n].tag \in {LowTag[a], HighTag[a], MidTag[a]}}

\* the one tag the description has for this axis is this one
OnlyTag(ramp, a, text) ==
    /\ Cardinality(TagsOn(ramp, a)) = 1
    /\ \A n \in TagsOn(ramp, a) : ramp.position_description[n].tag = text

\* low below 0.2, high above 0.8, a percentage in between
HorizontalTag(ramp, a) ==
    IF RelBelow(ramp, a, 2) THEN OnlyTag(ramp, a, LowTag[a])
    ELSE IF RelAbove(ramp, a, 8) THEN OnlyTag(ramp, a, HighTag[a])
    ELSE /\ OnlyTag(ramp, a, MidTag[a])
         /\ \A n \in TagsOn(ramp, a) : "percent" \in DOMAIN ramp.position_description[n]

\* bottom below 0.3, top above 0.7, nothing in between
VerticalTag(ramp) ==
    IF RelBelow(ramp, 3, 3) THEN OnlyTag(ramp, 3, "bottom")
    ELSE IF RelAbove(ramp, 3, 7) THEN OnlyTag(ramp, 3, "top")
    ELSE TagsOn(ramp, 3) = {}

\* C20: the position description of every returned cluster has exactly one
\* tag for X and one for Y (low below 0.2, high above 0.8, a percentage of
\* the range otherwise) and for Z 'bottom' below 0.3, 'top' above 0.7 and no
\* tag otherwise.
C20_PositionTags ==
    Detected =>
        \A n \in DOMAIN result :
            /\ HorizontalTag(result[n], 1)
            /\ HorizontalTag(result[n], 2)
            /\ VerticalTag(result[n])

\* what the code computes: Y and Z as stated; for X the low or the high tag,
\* and no tag at all from 0.2 to 0.8
C20_NoTagForMidX ==
    Detected =>
        \A n \in DOMAIN result :
            /\ IF RelBelow(result[n], 1, 2) THEN OnlyTag(result[n], 1, "left (low X)")
               ELSE IF RelAbove(result[n], 1, 8) THEN OnlyTag(result[n], 1, "right (high X)")
               ELSE TagsOn(result[n], 1) = {}
            /\ HorizontalTag(result[n], 2)
            /\ VerticalTag(result[n])
            /\ Len(result[n].position_description)
                  = Cardinality(TagsOn(result[n], 1)) + 1 + Cardinality(TagsOn(result[n], 3))

\* a returned cluster exactly at 0.2 of the width, 0.2 of the depth and 0.3
\* of the height: tagged for Y only
C20_MidXReached ==
    /\ Detected
    /\ \E n \in DOMAIN result :
          /\ ~RelBelow(result[n], 1, 2) /\ ~RelAbove(result[n], 1, 2)
          /\ ~RelBelow(result[n], 2, 2) /\ ~RelAbove(result[n], 2, 2)
          /\ ~RelBelow(result[n], 3, 3) /\ ~RelAbove(result[n], 3, 3)
          /\ result[n].position_description = <<MidY(20)>>

-----------------------------------------------------------------------------
(* the analyses at the expected ramp positions: the inputs *)

MaxAngled == 6         \* the most faces of one kind put into a wall region
MaxProtruding == 12    \* the most faces put into each end of the groove

\* width, depth, height
SlideDims ==
    {<<40000, 90000, 20000>>, <<90000, 40000, 20000>>, <<40000, 40000, 20000>>,
     <<20000, 24000, 20000>>}

\* a point or a vector given across and along the slide, for faces laid out
\* for a slide along Y (ys) or along X
Place(ys, across, along, z) == IF ys THEN <<across, along, z>> ELSE <<along, across, z>>

\* count faces in a row along the slide, step apart
FaceRow(count, ys, across, along, step, z, normal, area) ==
    [n \in 1..count |->
        [center |-> Place(ys, across, along + (n - 1) * step, z),
         normal |-> Place(ys, normal[1], normal[2], normal[3]),
         area |-> area]]

\* the mesh of these dimensions with these faces above a floor face
RegionMesh(dims, faces) ==
    LET all == <<[center |-> <<dims[1] \div 2, dims[2] \div 2, 0>>,
                  normal |-> <<0, 0, -1000>>,
                  area |-> Area(100000, 0)]>> \o faces
    IN  WithFaces(Mesh(Box3(0, dims[1], 0, dims[2], 0, dims[3]), 3 * Len(all), TRUE, TRUE,
                       [n \in DOMAIN all |-> all[n].area]),
                  [n \in DOMAIN all |-> all[n].normal],
                  [n \in DOMAIN all |-> all[n].center])

\* normals, across / along / up: tilted into the box, tilted along the
\* slide, flat, of a degenerate face, with n_z exactly 0.9, tilted out of
\* the box, with the across component exactly 0.3
WallNormals ==
    {<<600, 0, 800>>, <<0, 600, 800>>, <<0, 0, 1000>>, <<0, 0, 0>>, <<436, 0, 900>>,
     <<-600, 0, 800>>, <<300, 0, 954>>}

\* where across the slide a row is put: in the first wall, on the edge of
\* the wall region of a box (wall + 1), just beyond it, on the edge of the
\* rail region of a lid (wall + 2), and the same from the far side
AcrossPositions(extent) ==
    {2000, 4000, 4001, 5000, 5001,
     extent - 2000, extent - 4000, extent - 4001, extent - 5000, extent - 5001}

\* a single angled face on an edge of a region: none, on the exit
\* threshold, on the bottom of the groove, on the top of the groove of a
\* box, just above it, on the top of the box, on the bottom of the rail
Probes(ys, extent, height) ==
    {<<>>}
    \cup {FaceRow(1, ys, 2000, along, 0, z, <<600, 0, 800>>, Area(1000, 0)) :
             along \in {(ExitPercent * extent) \div 100, extent - 1000},
             z \in {height - 4000, height - 4001, height - 3000, height - 500,
                    height - 499, height}}

Along(ys, dims) == IF ys THEN dims[2] ELSE dims[1]
Across(ys, dims) == IF ys THEN dims[1] ELSE dims[2]

\* a row of faces of one kind and at most one flat face in the wall region
\* of the first or of the second wall, at the exit
CountInputs ==
    UNION {
        {RegionMesh(dims,
                    FaceRow(count, ys, across, Along(ys, dims) - 1000, -500,
                            dims[3] - 2000, normal, Area(1000, 0))
                    \o FaceRow(other, ys, across, Along(ys, dims) - 500, 0,
                               dims[3] - 2000, <<0, 0, 1000>>, Area(2500, 0))) :
            count \in 0..MaxAngled, other \in 0..1,
            across \in {2000, Across(ys, dims) - 2000},
            normal \in WallNormals} :
        dims \in SlideDims, ys \in BOOLEAN}

\* a row of angled faces, one short of the most or the most, on and about
\* the edges of the regions, with a probe
EdgeInputs ==
    UNION {
        {RegionMesh(dims,
                    FaceRow(count, ys, across, Along(ys, dims) - 1000, -500,
                            dims[3] - 2000, <<600, 0, 800>>, Area(1000, 0))
                    \o probe) :
            count \in {MaxAngled - 1, MaxAngled},
            across \in AcrossPositions(Across(ys, dims)),
            probe \in Probes(ys, Along(ys, dims), dims[3])} :
        dims \in SlideDims, ys \in BOOLEAN}

WallInputs == CountInputs \cup EdgeInputs

\* rows of faces at the entry and at the exit of the groove of the first
\* wall, 1 mm apart from the two ends
GrooveInputs ==
    UNION {
        {RegionMesh(dims,
                    FaceRow(entry, ys, 2000, 1000, 1000, dims[3] - 2000,
                            <<600, 0, 800>>, Area(1000, 500000000))
                    \o FaceRow(exit, ys, 2000, Along(ys, dims) - 1000, -1000, dims[3] - 2000,
                               normal, Area(1001, 500000000))) :
            entry \in 0..MaxProtruding, exit \in 0..MaxProtruding,
            normal \in {<<600, 0, 800>>, <<300, 0, 954>>, <<-600, 0, 800>>}} :
        dims \in SlideDims, ys \in BOOLEAN}

RegionInputs ==
    {<<mesh, Dims(mesh.bounds)>> : mesh \in WallInputs \cup GrooveInputs}
    \cup {<<NoMesh, dims>> : dims \in SlideDims}
    \cup {<<RegionMesh(dims, <<>>), NoneList>> : dims \in SlideDims}

InitRegions ==
    /\ pc = "regions_expected"
    /\ \E input \in RegionInputs : arg_mesh = input[1] /\ arg_dims = input[2]
    /\ clusters = <<>>
    /\ result = <<>>
    /\ stl_files = <<>>
    /\ file_idx = 1
    /\ report = EmptyDict
    /\ calls = {}
    /\ meshes = <<>>
    /\ placements = EmptyDict
    /\ analysis_dir = EmptyDict
    /\ i = 1
    /\ j = 2
    /\ name1 = ""
    /\ name2 = ""
    /\ overlap = FALSE
    /\ issues = <<>>
    /\ spatial = EmptyDict
    /\ stl = NoFile
    /\ analysed = NotRun

NextRegions == Regions_Expected \/ Regions_Lid \/ Regions_Compare

SpecRegions == InitRegions /\ [][NextRegions]_vars

RegionsDone == pc = "regions_done"

-----------------------------------------------------------------------------
(* the analyses at the expected ramp positions: properties *)

\* the three analyses have run on a mesh and on dimensions that are not None
Analysed == RegionsDone /\ arg_mesh # NoMesh /\ arg_dims # NoneList

YSlideLabels == {"Y-slide (depth > width)", "Y-slide"}
XSlideLabels == {"X-slide (width > depth)", "X-slide"}

\* the orientation labels of the three results
OrientationLabels ==
    <<result.expected.box_type, result.lid.lid_type, result.protrusion.slide_type>>

\* C16: the slide is along Y iff depth > width and along X otherwise, equal
\* width and depth included; the three analysers label the same dimensions
\* the same way, and examine the walls and rails of that orientation.
C16_SlideOrientation ==
    Analysed =>
        /\ \A n \in 1..3 :
              /\ OrientationLabels[n] \in YSlideLabels \cup XSlideLabels
              /\ OrientationLabels[n] \in YSlideLabels <=> arg_dims[2] > arg_dims[1]
              /\ OrientationLabels[n] \in XSlideLabels <=> arg_dims[2] <= arg_dims[1]
        /\ "left_wall_analysis" \in DOMAIN result.expected <=> arg_dims[2] > arg_dims[1]
        /\ "front_wall_analysis" \in DOMAIN result.expected <=> arg_dims[2] <= arg_dims[1]
        /\ "left_rail_analysis" \in DOMAIN result.lid <=> arg_dims[2] > arg_dims[1]
        /\ "front_rail_analysis" \in DOMAIN result.lid <=> arg_dims[2] <= arg_dims[1]

\* width = depth: all three say X-slide
C16_Witness ==
    /\ Analysed
    /\ arg_dims[1] = arg_dims[2]
    /\ OrientationLabels = <<"X-slide (width > depth)", "X-slide (width > depth)", "X-slide">>

C16_WitnessDeep ==
    /\ Analysed
    /\ arg_dims[1] = 40000 /\ arg_dims[2] = 90000
    /\ OrientationLabels = <<"Y-slide (depth > width)", "Y-slide (depth > width)", "Y-slide">>

C16_WitnessWide ==
    /\ Analysed
    /\ arg_dims[1] = 90000 /\ arg_dims[2] = 40000
    /\ OrientationLabels = <<"X-slide (width > depth)", "X-slide (width > depth)", "X-slide">>

\* the axis across the slide and the axis along it
AcrossAxis == IF arg_dims[2] > arg_dims[1] THEN 1 ELSE 2
AlongAxis == 3 - AcrossAxis

\* the faces whose centroid lies in a wall or rail region: across the slide
\* from lo to hi, along it beyond 0.85 of the extent, Z from z_min to z_max
InRegion(lo, hi, z_min, z_max) ==
    {n \in DOMAIN arg_mesh.triangles_center :
        LET c == arg_mesh.triangles_center[n]
        IN  /\ lo <= c[AcrossAxis] /\ c[AcrossAxis] <= hi
            /\ 100 * c[AlongAxis] > 85 * arg_dims[AlongAxis]
            /\ z_min <= c[3] /\ c[3] <= z_max}

\* of these faces, those with |n_z| < 0.9 and (|n_x| > 0.3 or |n_y| > 0.3)
AngledIn(S) ==
    {n \in S :
        LET normal == arg_mesh.face_normals[n]
        IN  /\ Abs(normal[3]) < 900
            /\ (Abs(normal[1]) > 300 \/ Abs(normal[2]) > 300)}

\* the four regions examined, each with the analysis reported for it
WallRegions ==
    LET extent == arg_dims[AcrossAxis]
        height == arg_dims[3]
        box == result.expected
        lid == result.lid
    IN  {[analysis |-> IF AcrossAxis = 1 THEN box.left_wall_analysis
                       ELSE box.front_wall_analysis,
          faces |-> InRegion(0, 4000, height - 4000, height - 500)],
         [analysis |-> IF AcrossAxis = 1 THEN box.right_wall_analysis
                       ELSE box.back_wall_analysis,
          faces |-> InRegion(extent - 4000, extent, height - 4000, height - 500)],
         [analysis |-> IF AcrossAxis = 1 THEN lid.left_rail_analysis
                       ELSE lid.front_rail_analysis,
          faces |-> InRegion(0, 5000, height - 3000, height)],
         [analysis |-> IF AcrossAxis = 1 THEN lid.right_rail_analysis
                       ELSE lid.back_rail_analysis,
          faces |-> InRegion(extent - 5000, extent, height - 3000, height)]}

NoGeometry == "NO GEOMETRY AT EXPECTED RAMP LOCATION"
RampDetected == "RAMP DETECTED"
FlatOnly == "Flat geometry only"

\* C17: the status of every wall and rail region is 'no geometry' iff no
\* face matches the region, 'ramp detected' iff more than 5 of the matching
\* faces are angled, and 'flat only' otherwise.
C17_RegionStatus ==
    Analysed =>
        \A region \in WallRegions :
            /\ region.analysis.status \in {NoGeometry, RampDetected, FlatOnly}
            /\ region.analysis.status = NoGeometry <=> region.faces = {}
            /\ region.analysis.status = RampDetected
                  <=> Cardinality(AngledIn(region.faces)) > 5
            /\ region.analysis.faces_found = Cardinality(region.faces)
            /\ region.faces # {}
                  => region.analysis.angled_faces = Cardinality(AngledIn(region.faces))

\* exactly 5 angled faces: flat only
C17_Witness ==
    /\ Analysed
    /\ \E region \in WallRegions :
          /\ Cardinality(AngledIn(region.faces)) = 5
          /\ region.analysis.status = FlatOnly

C17_WitnessRamp ==
    /\ Analysed
    /\ \E region \in WallRegions :
          /\ Cardinality(AngledIn(region.faces)) = 6
          /\ region.analysis.status = RampDetected

\* six faces and more in the region, none of them angled
C17_WitnessFlat ==
    /\ Analysed
    /\ \E region \in WallRegions :
          /\ Cardinality(region.faces) > 5
          /\ AngledIn(region.faces) = {}
          /\ region.analysis.status = FlatOnly

\* faces at the exit on the edge of the rail, outside the wall region
C17_WitnessNone ==
    /\ Analysed
    /\ \E box, lid \in WallRegions :
          /\ box.analysis.status = NoGeometry
          /\ lid.analysis.status = RampDetected

\* the faces counted at one end of the groove of the first wall: across the
\* slide within 0 to wall + 2, along it from lo to hi, Z within the top 4 mm,
\* with a normal of more than 0.3 into the box
Protruding(lo, hi) ==
    {n \in DOMAIN arg_mesh.triangles_center :
        LET c == arg_mesh.triangles_center[n]
        IN  /\ 0 <= c[AcrossAxis] /\ c[AcrossAxis] <= 5000
            /\ lo <= c[AlongAxis] /\ c[AlongAxis] <= hi
            /\ arg_dims[3] - 4000 <= c[3] /\ c[3] <= arg_dims[3]
            /\ arg_mesh.face_normals[n][AcrossAxis] > 300}

EntryCount == Cardinality(Protruding(0, 13000))
ExitCount == Cardinality(Protruding(arg_dims[AlongAxis] - 13000, arg_dims[AlongAxis]))

EntryExceedsExit ==
    "PROBLEM: More protruding faces at ENTRY than EXIT - ramp may be at wrong end!"
ExitSufficient == "OK: Protruding faces detected at EXIT region"
ExitInsufficient ==
    "WARNING: Few protruding faces at EXIT - ramp may be missing or too small"

\* C18: in both orientations compare_entry_vs_exit gives one diagnosis:
\* the defect when the entry count exceeds the exit count, otherwise
\* 'sufficient' when the exit count exceeds 10, otherwise 'insufficient'.
C18_DiagnosisOrder ==
    Analysed =>
        /\ result.protrusion.entry_region.protruding_faces = EntryCount
        /\ result.protrusion.exit_region.protruding_faces = ExitCount
        /\ result.protrusion.diagnosis \in {EntryExceedsExit, ExitSufficient, ExitInsufficient}
        /\ result.protrusion.diagnosis = EntryExceedsExit <=> EntryCount > ExitCount
        /\ result.protrusion.diagnosis = ExitSufficient
              <=> (EntryCount <= ExitCount /\ ExitCount > 10)
        /\ result.protrusion.diagnosis = ExitInsufficient
              <=> (EntryCount <= ExitCount /\ ExitCount <= 10)

\* entry 8, exit 2: the defect
C18_Witness ==
    /\ Analysed
    /\ EntryCount = 8 /\ ExitCount = 2
    /\ result.protrusion.diagnosis = EntryExceedsExit

\* more at the entry than at the exit, and more than 10 at the exit
C18_WitnessOrder ==
    /\ Analysed
    /\ EntryCount > ExitCount /\ ExitCount > 10
    /\ result.protrusion.diagnosis = EntryExceedsExit

C18_WitnessEqual ==
    /\ Analysed
    /\ EntryCount = ExitCount /\ EntryCount > 10
    /\ result.protrusion.diagnosis = ExitSufficient

C18_WitnessTen ==
    /\ Analysed
    /\ EntryCount = 10 /\ ExitCount = 10
    /\ result.protrusion.diagnosis = ExitInsufficient

\* both orientations reach each diagnosis
C18_WitnessAcross ==
    /\ Analysed
    /\ AcrossAxis = 2
    /\ EntryCount = 11 /\ ExitCount = 11
    /\ result.protrusion.diagnosis = ExitSufficient

\* the indices of a set of faces in ascending order
RECURSIVE Ascending(_)
Ascending(S) ==
    IF S = {} THEN <<>>
    ELSE LET least == CHOOSE x \in S : \A y \in S : x <= y
         IN  <<least>> \o Ascending(S \ {least})

\* the faces of a set, as the analysers record them, in the order of the mesh
FacesInOrder(S) ==
    LET order == Ascending(S)
    IN  [n \in DOMAIN order |->
            [center |-> arg_mesh.triangles_center[order[n]],
             normal |-> arg_mesh.face_normals[order[n]],
             area |-> arg_mesh.area_faces[order[n]]]]

\* the least and the greatest coordinate along the slide of a set of faces
AlongOf(S) == {arg_mesh.triangles_center[n][AlongAxis] : n \in S}
LeastAlong(S) == CHOOSE v \in AlongOf(S) : \A w \in AlongOf(S) : v <= w
GreatestAlong(S) == CHOOSE v \in AlongOf(S) : \A w \in AlongOf(S) : v >= w

\* the range reported for a region: y_range on a Y-slide, x_range otherwise
RangeOf(analysis) == IF AcrossAxis = 1 THEN analysis.y_range ELSE analysis.x_range

\* the analysis of a region reports these faces
Reports(analysis, S) ==
    /\ analysis.faces_found = Cardinality(S)
    /\ S # {} => RangeOf(analysis) = <<Round2(LeastAlong(S)), Round2(GreatestAlong(S))>>

\* the two walls of a container: the band across the slide of each, the
\* faces the analyser selects for it and the analysis it reports
BoxWalls ==
    LET extent == arg_dims[AcrossAxis]
        height == arg_dims[3]
    IN  {[lo |-> 0, hi |-> 4000,
          selected |-> MatchingFaces(arg_mesh, AcrossAxis, 0, 4000, AlongAxis,
                                     arg_dims[AlongAxis], height - 4000, height - 500),
          analysis |-> IF AcrossAxis = 1 THEN result.expected.left_wall_analysis
                       ELSE result.expected.front_wall_analysis],
         [lo |-> extent - 4000, hi |-> extent,
          selected |-> MatchingFaces(arg_mesh, AcrossAxis, extent - 4000, extent, AlongAxis,
                                     arg_dims[AlongAxis], height - 4000, height - 500),
          analysis |-> IF AcrossAxis = 1 THEN result.expected.right_wall_analysis
                       ELSE result.expected.back_wall_analysis]}

\* C21: for a container, the faces selected for a wall are exactly those
\* whose centroid is across the slide within [0, wall + 1] or
\* [extent - wall - 1, extent], ends included, along the slide strictly
\* beyond 0.85 of the extent, and in Z within [height - 4, height - 0.5],
\* ends included, with wall = 3.0; X is across a slide along Y and Y across
\* a slide along X; the selected faces are in the order of the mesh.
C21_WallSelection ==
    Analysed =>
        \A wall \in BoxWalls :
            LET S == InRegion(wall.lo, wall.hi, arg_dims[3] - 4000, arg_dims[3] - 500)
            IN  /\ wall.selected = FacesInOrder(S)
                /\ Reports(wall.analysis, S)

\* a row of faces exactly wall + 1 from the outside is selected, with a
\* face in the wall just above height - 0.5 or on the exit threshold left out
C21_Witness ==
    /\ Analysed
    /\ \E wall \in BoxWalls :
          LET S == InRegion(wall.lo, wall.hi, arg_dims[3] - 4000, arg_dims[3] - 500)
          IN  /\ Cardinality(S) > 1
              /\ \A n \in S : arg_mesh.triangles_center[n][AcrossAxis] \in {4000, wall.hi - 4000}
              /\ wall.analysis.faces_found = Cardinality(S)
              /\ \E n \in DOMAIN arg_mesh.triangles_center \ S :
                    /\ arg_mesh.triangles_center[n][AcrossAxis] = 2000
                    /\ \/ arg_mesh.triangles_center[n][3] = arg_dims[3] - 499
                       \/ 100 * arg_mesh.triangles_center[n][AlongAxis]
                             = 85 * arg_dims[AlongAxis]

\* faces on the bottom and on the top of the Z band are selected
C21_WitnessBand ==
    /\ Analysed
    /\ \E wall \in BoxWalls : \E n \in DOMAIN wall.selected :
          wall.selected[n].center[3] \in {arg_dims[3] - 4000, arg_dims[3] - 500}

\* a row just beyond wall + 1 is not selected
C21_WitnessBeyond ==
    /\ Analysed
    /\ \E wall \in BoxWalls :
          /\ wall.selected = <<>>
          /\ \E n \in DOMAIN arg_mesh.triangles_center :
                /\ arg_mesh.triangles_center[n][AcrossAxis] \in {4001, wall.hi - 4001}
                /\ arg_mesh.triangles_center[n][3] = arg_dims[3] - 2000

\* the two rails of a lid, with the band across the slide of this half-width
LidRails(band) ==
    LET extent == arg_dims[AcrossAxis]
    IN  {[faces |-> InRegion(0, band, arg_dims[3] - 3000, arg_dims[3]),
          analysis |-> IF AcrossAxis = 1 THEN result.lid.left_rail_analysis
                       ELSE result.lid.front_rail_analysis],
         [faces |-> InRegion(extent - band, extent, arg_dims[3] - 3000, arg_dims[3]),
          analysis |-> IF AcrossAxis = 1 THEN result.lid.right_rail_analysis
                       ELSE result.lid.back_rail_analysis]}

\* C22: for a lid the two regions analysed are the bands [0, wall + 1] and
\* [extent - wall - 1, extent] across the slide, as for a container, beyond
\* 0.85 of the extent along the slide and with Z in [height - 3, height].
C22_LidBands ==
    Analysed => \A rail \in LidRails(4000) : Reports(rail.analysis, rail.faces)

\* what the code computes: the bands of a lid are [0, wall + 2] and
\* [extent - wall - 2, extent]
C22_LidBandsWallPlus2 ==
    Analysed => \A rail \in LidRails(5000) : Reports(rail.analysis, rail.faces)

\* a lid whose only faces at the exit are wall + 2 from the outside: a ramp
\* is detected on a rail whose band, as for a container, holds no face
C22_BeyondWallPlus1 ==
    /\ Analysed
    /\ \E narrow \in LidRails(4000) : \E wide \in LidRails(5000) :
          /\ narrow.analysis = wide.analysis
          /\ narrow.faces = {}
          /\ wide.analysis.status = RampDetected

\* the faces counted at one end of the groove, with this top of the Z band
ProtrudingTo(lo, hi, z_max) ==
    {n \in DOMAIN arg_mesh.triangles_center :
        LET c == arg_mesh.triangles_center[n]
        IN  /\ 0 <= c[AcrossAxis] /\ c[AcrossAxis] <= 5000
            /\ lo <= c[AlongAxis] /\ c[AlongAxis] <= hi
            /\ arg_dims[3] - 4000 <= c[3] /\ c[3] <= z_max
            /\ arg_mesh.face_normals[n][AcrossAxis] > 300}

\* the two counts reported are those of the two bands, up to this Z
CountsTo(z_max) ==
    /\ result.protrusion.entry_region.protruding_faces
          = Cardinality(ProtrudingTo(0, 13000, z_max))
    /\ result.protrusion.exit_region.protruding_faces
          = Cardinality(ProtrudingTo(arg_dims[AlongAxis] - 13000, arg_dims[AlongAxis], z_max))

\* C23: compare_entry_vs_exit counts the faces of the entry band
\* [0, wall + 10] and of the exit band [extent - wall - 10, extent] along the
\* slide, next to the first wall, in the Z band [height - 4, height - 0.5] of
\* the container groove, whose normal points into the box by more than 0.3.
C23_GrooveBand ==
    Analysed => CountsTo(arg_dims[3] - 500)

\* what the code computes: the Z band of the comparison is
\* [height - 4, height]
C23_GrooveBandToTop ==
    Analysed => CountsTo(arg_dims[3])

\* a protruding face at the very top of the box, at the exit, is counted
C23_TopFaceCounted ==
    /\ Analysed
    /\ \E n \in ProtrudingTo(arg_dims[AlongAxis] - 13000, arg_dims[AlongAxis], arg_dims[3]) :
          arg_mesh.triangles_center[n][3] = arg_dims[3]
    /\ result.protrusion.exit_region.protruding_faces
          > Cardinality(ProtrudingTo(arg_dims[AlongAxis] - 13000, arg_dims[AlongAxis],
                                     arg_dims[3] - 500))

-----------------------------------------------------------------------------
(* Properties of main: the inputs of the analyses *)

\* what a call of check_intersections on these meshes and placements
\* returns: the issues of the pairs from (a, b) on
RECURSIVE IssuesFrom(_, _, _, _)
IssuesFrom(ms, pl, a, b) ==
    IF a >= Len(ms) THEN <<>>
    ELSE IF b > Len(ms) THEN IssuesFrom(ms, pl, a + 1, a + 2)
    ELSE LET bounds1 == GetPlacedBounds(ms[a].name, ms[a].mesh, pl)
             bounds2 == GetPlacedBounds(ms[b].name, ms[b].mesh, pl)
         IN  PairIssues(ms[a].name, bounds1, ms[b].name, bounds2, Overlaps(bounds1, bounds2))
             \o IssuesFrom(ms, pl, a, b + 1)

\* a step of check_intersections or of compute_spatial_analysis
AnalysisStep == pc \in {"ci", "spatial"}

\* C24: check_intersections and compute_spatial_analysis leave every mesh
\* and every placement entry as they were before the call, and a second
\* call on the same inputs returns what the first returned.
C24_InputsUnchanged ==
    /\ [][AnalysisStep => (meshes' = meshes /\ placements' = placements)]_vars
    /\ [](pc = "ci_done" => issues = IssuesFrom(meshes, placements, 1, 2))
    /\ [](pc = "write" =>
             spatial = ComputeSpatialAnalysis(meshes, placements, analysis_dir))

\* both calls made on a box and a tray placed at (3, 3): the bounds of the
\* tray still start at its own origin
C24_Witness ==
    /\ pc = "write"
    /\ HasKey(meshes, "box")
    /\ HasKey(meshes, "tray_A_a")
    /\ "tray_A_a" \in DOMAIN placements
    /\ placements["tray_A_a"] = [x |-> 3000, y |-> 3000]
    /\ Lookup(meshes, "tray_A_a").bounds[1] = <<0, 0, 0>>
    /\ spatial.trays[1].position = [x |-> 3000, y |-> 3000]

\* the analyses at the expected positions have been made, or passed over
ExpectedDone == pc \in {"spatial", "write", "render", "done"}

\* the region analysis of the lid is in the report
LidAnalysed ==
    /\ "expected_ramp_analysis" \in DOMAIN report
    /\ "lid" \in DOMAIN report.expected_ramp_analysis
    /\ "lid_type" \in DOMAIN report.expected_ramp_analysis.lid

\* C25: whenever the lid mesh has loaded, its expected-position region
\* analysis is in the report, whether the box mesh is in the batch, has
\* loaded or has failed to load.
C25_LidAnalysedWheneverLoaded ==
    (ExpectedDone /\ HasKey(meshes, "lid")) => LidAnalysed

\* what the code computes: the lid is analysed iff the box has loaded too
C25_LidAnalysedOnlyWithBox ==
    ExpectedDone =>
        /\ LidAnalysed <=> (HasKey(meshes, "lid") /\ HasKey(meshes, "box"))
        /\ <<"analyze_lid_ramp_positions", "lid">> \in calls <=> LidAnalysed

\* the lid has loaded and the box could not be read: the report has the
\* record of the lid and no region analysis at all
C25_LidAloneReached ==
    /\ ExpectedDone
    /\ HasKey(meshes, "lid")
    /\ "box.stl" \in DOMAIN report.meshes
    /\ "error" \in DOMAIN report.meshes["box.stl"]
    /\ "expected_ramp_analysis" \notin DOMAIN report

\* the tolerances a second run is given: none, the default, 2 mm, 10 mm
Tolerances == {0, 500, 2000, 10000}

\* the analysis directory with the tolerance of every box of the project
\* set to t, all else as it is
Retoleranced(dir, t) ==
    IF "project.json" \in DOMAIN dir /\ "boxes" \in DOMAIN dir["project.json"]
    THEN [f \in DOMAIN dir |->
             IF f = "project.json"
             THEN [dir[f] EXCEPT !.boxes =
                      [k \in DOMAIN dir[f].boxes |-> DictPut(dir[f].boxes[k], "tolerance", t)]]
             ELSE dir[f]]
    ELSE dir

\* the findings of the run main would make on this directory with the
\* meshes it has loaded: the intersection defects, the fit check, the fit
\* issues
FindingsOn(dir) ==
    LET pl == LoadPlacements(dir)
        layout == ComputeSpatialAnalysis(meshes, pl, dir)
    IN  [intersections |-> IssuesFrom(meshes, pl, 1, 2),
         fit_check |-> layout.fit_check,
         fit_issues |-> FitIssues(DictGet(layout, "fit_check", EmptyDict))]

\* the findings of this run
Findings ==
    [intersections |-> issues,
     fit_check |-> spatial.fit_check,
     fit_issues |-> FitIssues(DictGet(spatial, "fit_check", EmptyDict))]

\* C27: the configured tolerance of the box has no effect on a finding: a
\* run that differs in the tolerance alone has the same intersection
\* defects and the same fit flags and gaps.
C27_ToleranceHasNoEffect ==
    pc = "write" =>
        \A t \in Tolerances : FindingsOn(Retoleranced(analysis_dir, t)) = Findings

\* a box with a configuration and a tray 5 mm too wide for it: with a
\* tolerance of 10 mm it is still reported too wide
C27_Witness ==
    /\ pc = "write"
    /\ "project.json" \in DOMAIN analysis_dir
    /\ spatial.box_params # EmptyDict
    /\ spatial.fit_check # EmptyDict
    /\ spatial.fit_check.fits_width = FALSE
    /\ spatial.fit_check.max_tray_width - spatial.fit_check.interior_width < 10000
    /\ Retoleranced(analysis_dir, 10000) # analysis_dir
    /\ ComputeSpatialAnalysis(meshes, placements, Retoleranced(analysis_dir, 10000)).box_params
          # spatial.box_params
    /\ FindingsOn(Retoleranced(analysis_dir, 10000)) = Findings

-----------------------------------------------------------------------------
(* Properties of main: the batch loop *)

\* the file was found and analyze_mesh returned for it
Succeeded(stl_file) ==
    /\ Found(stl_file)
    /\ ~AnalyzeMesh(analysis_dir[stl_file]).raised

\* the number of entries of stl_files the loop has been through
ProcessedCount ==
    IF pc = "load" THEN file_idx - 1
    ELSE IF Reporting THEN Len(stl_files)
    ELSE 0

\* the mesh trimesh loads from a file that is analysed successfully
LoadedFrom(stl_file) == AnalyzeMesh(analysis_dir[stl_file]).mesh

\* the vertices and the faces of the meshes analysed successfully among the
\* first n entries of stl_files
RECURSIVE VerticesOfFirst(_)
VerticesOfFirst(n) ==
    IF n = 0 THEN 0
    ELSE VerticesOfFirst(n - 1)
         + (IF Succeeded(stl_files[n]) THEN LoadedFrom(stl_files[n]).vertices ELSE 0)

RECURSIVE FacesOfFirst(_)
FacesOfFirst(n) ==
    IF n = 0 THEN 0
    ELSE FacesOfFirst(n - 1)
         + (IF Succeeded(stl_files[n]) THEN Len(LoadedFrom(stl_files[n]).area_faces) ELSE 0)

\* the names of the meshes analysed successfully among the first n entries
SucceededNames(n) ==
    {StripStl(stl_files[k]) : k \in {m \in 1..n : Succeeded(stl_files[m])}}

\* totals and mesh map after a prefix of the manifest; inside the loop the
\* combined issues are those of successfully analysed meshes
LoopTotals ==
    Reporting =>
        /\ report.combined_analysis.total_vertices = VerticesOfFirst(ProcessedCount)
        /\ report.combined_analysis.total_faces = FacesOfFirst(ProcessedCount)
        /\ NamesOf(meshes) = SucceededNames(ProcessedCount)
        /\ \A k \in DOMAIN meshes : meshes[k].mesh # NoMesh
        /\ pc = "load" =>
              \A n \in DOMAIN CombinedIssues :
                  /\ CombinedIssues[n].kind = "mesh"
                  /\ CombinedIssues[n].name \in SucceededNames(ProcessedCount)

\* the iteration of the loop on a file that is missing or whose analysis raises
FailedOrSkippedStep ==
    /\ pc = "load"
    /\ file_idx <= Len(stl_files)
    /\ ~Succeeded(stl_files[file_idx])

\* C28: after the batch loop has been through any prefix of the manifest,
\* total_vertices and total_faces are the sums of the vertex and face counts
\* of the meshes analysed successfully so far, the names in meshes are the
\* names of those meshes, and the iteration on a file that failed or was
\* skipped leaves the totals, meshes and the combined issues as they were.
C28_LoopTotals ==
    /\ []LoopTotals
    /\ [][FailedOrSkippedStep =>
             /\ meshes' = meshes
             /\ report'.combined_analysis = report.combined_analysis]_vars

\* inside the loop, two files done: one raised, the other was analysed and
\* its counts are the totals
C28_Witness ==
    /\ pc = "load"
    /\ file_idx = 3
    /\ Found(stl_files[1]) /\ ~Succeeded(stl_files[1])
    /\ Succeeded(stl_files[2])
    /\ FailedRecord(stl_files[1])
    /\ NamesOf(meshes) = {StripStl(stl_files[2])}
    /\ report.combined_analysis.total_vertices = LoadedFrom(stl_files[2]).vertices
    /\ report.combined_analysis.total_vertices > 0
    /\ report.combined_analysis.total_faces = Len(LoadedFrom(stl_files[2]).area_faces)
    /\ CombinedIssues # <<>>

\* a file analysed, then a file of the manifest missing from the directory
C28_WitnessSkipped ==
    /\ pc = "load"
    /\ file_idx = 3
    /\ Succeeded(stl_files[1])
    /\ ~Found(stl_files[2])
    /\ NamesOf(meshes) = {StripStl(stl_files[1])}
    /\ report.combined_analysis.total_faces = Len(LoadedFrom(stl_files[1]).area_faces)
    /\ DOMAIN report.meshes = {StripStl(stl_files[1])}

\* a proper prefix: one file analysed, one still to come
C28_WitnessPrefix ==
    /\ pc = "load"
    /\ file_idx = 2
    /\ Len(stl_files) = 2
    /\ Succeeded(stl_files[1])
    /\ Succeeded(stl_files[2])
    /\ report.combined_analysis.total_vertices = LoadedFrom(stl_files[1]).vertices
    /\ NamesOf(meshes) = {StripStl(stl_files[1])}

\* two files analysed: the totals are the sums of their counts
C28_WitnessSum ==
    /\ pc = "load"
    /\ file_idx = 3
    /\ Succeeded(stl_files[1])
    /\ Succeeded(stl_files[2])
    /\ report.combined_analysis.total_vertices =
          LoadedFrom(stl_files[1]).vertices + LoadedFrom(stl_files[2]).vertices
    /\ LoadedFrom(stl_files[1]).vertices > 0
    /\ LoadedFrom(stl_files[2]).vertices > 0

=============================================================================
